---------------------------- MODULE Spec2Model ----------------------------
(***************************************************************************)
(* AskTony: roster/project dimension import (dim_admin.py,                 *)
(* project_admin.py) and the commit scoring reports (warehouse.py).        *)
(*                                                                         *)
(* Text is modelled as a sequence of character tokens, so that trimming,   *)
(* lower-casing, splitting and the corporate e-mail pattern are computed,  *)
(* not assumed.  A token is one character, except for a few atoms (a mail  *)
(* domain, a role name, the placeholder prefix) whose inner characters no  *)
(* operation of the program looks at.  The empty text <<>> also stands for *)
(* Python's None wherever the code only tests truthiness.  Role names are  *)
(* written in ASCII: "JavaBackend" is ROLE_OPTIONS[0], "DataDev" is        *)
(* ROLE_OPTIONS[4], "Management" is ROLE_OPTIONS[7], "Other" is            *)
(* ROLE_OPTIONS[8].                                                        *)
(***************************************************************************)
EXTENDS Integers, Sequences, FiniteSets, TLC

VARIABLES
    \* gold.* dimension tables written by DimAdmin.import_dim_info
    dim_member_enrichment,      \* member_key -> [employee_id, full_name, role, ...]
    bridge_employee_identity,   \* <<kind, identity_l>> -> employee_id
    dim_department_level2,      \* department_level2_id -> name
    dim_department_level3,      \* department_level3_id -> [department_level2_id, name]
    dim_repo_enrichment,        \* repo_id -> [department_level2_id, department_level3_id]
    \* gold.* tables written by ProjectAdmin.import_project_info
    dim_project,                \* project_id -> project_name
    bridge_project_repo,        \* <<project_id, repo_id, start_at>> -> [end_at, weight]
    bridge_project_person_role, \* <<project_id, employee_id, project_role, start_at>> -> [end_at, allocation]
    \* what the last import call returned, and what it was given
    last,
    \* number of file rows handed to import calls so far
    rows_given,
    \* the lake (lake.py) and the tables built from it by Warehouse.build
    silver_commits,             \* set of stored commits
    silver_commit_stats,        \* <<repo_id, sha>> -> [is_merge, additions, deletions]
    dim_member_base,            \* member_key -> [username, email]
    fact_commit,                \* set of rows of gold.fact_commit
    \* the window the reports are asked for, and what each report returned on the
    \* tables as they are now
    months,
    reports,
    \* the population of per-person window aggregates the scoring runs on, and the
    \* table each scoring run returned
    people,
    score_tables,
    \* the rest of the lake: the repos of the group, the per-repo snapshots of
    \* contributors and members, and meta.repo_watermark
    silver_repos,               \* set of repo ids
    silver_top_contributors,    \* set of stored contributor rows
    silver_members,             \* set of stored member rows
    repo_watermark,             \* repo_id -> last_committed_at
    bronze_commits,             \* repo_id -> the result in the newest commits snapshot of the repo
    \* the ingestion command under way or last run: the repos it still has to visit and
    \* what its last fetches returned
    ingest_run,
    \* the diff-stat backfill under way or last run: its candidates, the requests not yet
\* collected, the counters it reports and the number of rows it has handed to the store
    enrich_run

dimVars == <<dim_member_enrichment, bridge_employee_identity, dim_department_level2,
             dim_department_level3, dim_repo_enrichment>>

projectVars == <<dim_project, bridge_project_repo, bridge_project_person_role>>

vars == <<dim_member_enrichment, bridge_employee_identity, dim_department_level2,
          dim_department_level3, dim_repo_enrichment, dim_project, bridge_project_repo,
          bridge_project_person_role, last, rows_given,
          silver_commits, silver_commit_stats, dim_member_base, fact_commit, months, reports,
          people, score_tables,
          silver_repos, silver_top_contributors, silver_members, repo_watermark,
          bronze_commits, ingest_run, enrich_run>>

snapshotVars == <<silver_repos, silver_top_contributors, silver_members, bronze_commits>>

ingestVars == <<snapshotVars, repo_watermark, ingest_run, enrich_run>>

lakeVars == <<silver_commits, silver_commit_stats, dim_member_base, fact_commit>>

reportVars == <<lakeVars, months, reports>>

scoreVars == <<people, score_tables>>

(***************************************************************************)
(* Bounds of the model.                                                    *)
(***************************************************************************)
\* file rows handed to import calls in one run, over all calls and files
MaxRows == 2

\* commits stored in the lake
MaxCommits == 2

\* people in a scored population
MaxPeople == 3

\* the longest window asked for, in months
MaxMonths == 4

\* the batch size at which the backfill writes its batch (500 in the code)
FlushSize == 2

(***************************************************************************)
(* Text helpers.                                                           *)
(***************************************************************************)
\* str.lower(), per token
LowerChar(c) ==
    CASE c = "A" -> "a"
      [] c = "B" -> "b"
      [] c = "R" -> "r"
      [] c = "D" -> "d"
      [] c = "JavaBackend" -> "javabackend"
      [] c = "DataDev" -> "datadev"
      [] c = "Management" -> "management"
      [] c = "Other" -> "other"
      [] OTHER -> c

Lower(s) == [i \in 1..Len(s) |-> LowerChar(s[i])]

IsSpace(c) == c = " "

\* str.strip()
Strip(s) ==
    IF \A i \in 1..Len(s) : IsSpace(s[i]) THEN <<>>
    ELSE LET first == CHOOSE i \in 1..Len(s) :
                        ~IsSpace(s[i]) /\ \A j \in 1..(i-1) : IsSpace(s[j])
             lastc == CHOOSE i \in 1..Len(s) :
                        ~IsSpace(s[i]) /\ \A j \in (i+1)..Len(s) : IsSpace(s[j])
         IN  SubSeq(s, first, lastc)

\* dim_admin._norm_key
NormKey(value) == Lower(Strip(value))

IsDigit(c) == c \in {"0", "1", "8"}
IsAlnum(c) == IsDigit(c) \/ c \in {"a", "b", "c", "d", "r"}

\* re [0-9]+ and [a-z0-9]+ as full matches
AllDigits(s) == Len(s) > 0 /\ \A i \in 1..Len(s) : IsDigit(s[i])
AllAlnum(s) == Len(s) > 0 /\ \A i \in 1..Len(s) : IsAlnum(s[i])

\* index of the first "@", 0 when there is none
AtPos(v) ==
    IF \E i \in 1..Len(v) : v[i] = "@"
    THEN CHOOSE i \in 1..Len(v) : v[i] = "@" /\ \A j \in 1..(i-1) : v[j] # "@"
    ELSE 0

\* v.split("@", 1)[0]
LocalPart(v) == IF AtPos(v) = 0 THEN v ELSE SubSeq(v, 1, AtPos(v) - 1)

\* the corporate mailbox pattern (?:[a-z0-9]+\.[a-z0-9]+|[0-9]+)@clife\.cn as a full match
MatchesCompanyPattern(v) ==
    LET l == LocalPart(v)
    IN  /\ v # <<>>
        /\ AtPos(v) > 0
        /\ SubSeq(v, AtPos(v) + 1, Len(v)) = <<"clife.cn">>
        /\ \/ AllDigits(l)
           \/ \E k \in 1..Len(l) :
                /\ l[k] = "."
                /\ AllAlnum(SubSeq(l, 1, k - 1))
                /\ AllAlnum(SubSeq(l, k + 1, Len(l)))

\* dim_admin._is_company_email
IsCompanyEmail(value) == MatchesCompanyPattern(NormKey(value))

\* dim_admin._company_username_from_email (<<>> for None)
CompanyUsernameFromEmail(value) ==
    LET v == NormKey(value)
        l == LocalPart(v)
    IN  IF ~IsCompanyEmail(v) THEN <<>>
        ELSE IF AllDigits(l) THEN <<"partner-">> \o l
        ELSE l

IsSeparator(c) == c \in {";", ",", "|", " "}

\* dim_admin._split_identities: split on the separators, trim, drop blanks
RECURSIVE SplitFrom(_, _, _)
SplitFrom(raw, i, cur) ==
    IF i > Len(raw)
    THEN IF cur = <<>> THEN <<>> ELSE <<cur>>
    ELSE IF IsSeparator(raw[i])
         THEN (IF cur = <<>> THEN <<>> ELSE <<cur>>) \o SplitFrom(raw, i + 1, <<>>)
         ELSE SplitFrom(raw, i + 1, Append(cur, raw[i]))

SplitIdentities(value) == SplitFrom(Strip(value), 1, <<>>)

\* member_key.startswith("dummy_")
IsDummyKey(mk) == Len(mk) > 0 /\ mk[1] = "dummy_"

\* float(s) succeeds (on the model's alphabet: digits with at most one ".")
ParsesAsNumber(s) ==
    /\ \A i \in 1..Len(s) : IsDigit(s[i]) \/ s[i] = "."
    /\ \E i \in 1..Len(s) : IsDigit(s[i])
    /\ Cardinality({i \in 1..Len(s) : s[i] = "."}) <= 1

\* dim_admin._stable_id(prefix, *parts): a hash of the trimmed, lower-cased parts,
\* each followed by a separator byte (the hash is taken to be collision-free)
RECURSIVE JoinParts(_)
JoinParts(parts) ==
    IF parts = <<>> THEN <<>>
    ELSE NormKey(Head(parts)) \o <<"|">> \o JoinParts(Tail(parts))

StableId(prefix, parts) == <<prefix, "_">> \o JoinParts(parts)

(***************************************************************************)
(* Finite maps.                                                            *)
(***************************************************************************)
Get(f, k) == IF k \in DOMAIN f THEN f[k] ELSE <<>>
Put(f, k, v) == [x \in (DOMAIN f) \cup {k} |-> IF x = k THEN v ELSE f[x]]
Remove(f, ks) == [x \in (DOMAIN f) \ ks |-> f[x]]
EmptyMap == [x \in {} |-> <<>>]

(***************************************************************************)
(* DimAdmin.import_dim_info, stage 1: validation.                          *)
(*                                                                         *)
(* A member row carries the columns the validation reads; the remaining    *)
(* free-text columns (position, gender, ...) are copied like full_name and *)
(* are left out.  The accumulator holds the locals of import_dim_info.     *)
(***************************************************************************)
ROLE_OPTIONS == {<<"JavaBackend">>, <<"DataDev">>, <<"Management">>, <<"Other">>}
ALLOWED_ROLES == {NormKey(x) : x \in ROLE_OPTIONS}

ImportIssue(file, row, field) == [file |-> file, row |-> row, field |-> field]

\* load_existing_departments: the maps read from the tables before stage 1.
\* name is UNIQUE per table, so at most one id carries a given name.
Dept2ToId(d2) ==
    [n \in {NormKey(d2[id]) : id \in {i \in DOMAIN d2 : d2[i] # <<>>}} |->
        CHOOSE id \in DOMAIN d2 : d2[id] # <<>> /\ NormKey(d2[id]) = n]

Dept3ToId(d3) ==
    [k \in {<<d3[id].department_level2_id, NormKey(d3[id].name)>> :
                id \in {i \in DOMAIN d3 : d3[i].department_level2_id # <<>> /\ d3[i].name # <<>>}} |->
        CHOOSE id \in DOMAIN d3 :
            /\ d3[id].department_level2_id # <<>> /\ d3[id].name # <<>>
            /\ <<d3[id].department_level2_id, NormKey(d3[id].name)>> = k]

\* existing_identity_to_employee
ExistingIdentityToEmployee(bridge) ==
    [k \in {x \in DOMAIN bridge : x[1] # "" /\ x[2] # <<>> /\ bridge[x] # <<>>} |-> bridge[k]]

\* rows of dim_member_enrichment with a non-blank member_key and employee_id
HoldingKeys(enr) ==
    {mk \in DOMAIN enr : Strip(mk) # <<>> /\ Strip(enr[mk].employee_id) # <<>>}

\* member_key_to_employee_id
MemberKeyToEmployeeId(enr) ==
    [k \in {NormKey(mk) : mk \in HoldingKeys(enr)} |->
        Strip(enr[CHOOSE mk \in HoldingKeys(enr) : NormKey(mk) = k].employee_id)]

\* employee_id_to_member_key: the rows come back in no stated order; the first row of an
\* employee_id is kept unless it is a placeholder key and a later one is not.  So the map
\* holds, for each employee_id, any one of its non-placeholder keys when it has one, and
\* any one of its keys otherwise.
EmployeeIdToMemberKeyChoices(enr) ==
    LET emps == {Strip(enr[mk].employee_id) : mk \in HoldingKeys(enr)}
        keysOf(e) == {NormKey(mk) : mk \in {k \in HoldingKeys(enr) : Strip(enr[k].employee_id) = e}}
        real(e) == {k \in keysOf(e) : ~IsDummyKey(k)}
        cands(e) == IF real(e) # {} THEN real(e) ELSE keysOf(e)
    IN  {f \in [emps -> UNION {keysOf(e) : e \in emps}] : \A e \in emps : f[e] \in cands(e)}

NewAcc(bridge) ==
    [issues |-> <<>>,
     identity_upserts |-> <<>>,
     member_upserts |-> <<>>,
     member_keys_to_delete |-> <<>>,
     repo_upserts |-> <<>>,
     existing_identity_to_employee |-> ExistingIdentityToEmployee(bridge),
     dept2_upserts |-> EmptyMap,
     dept3_upserts |-> EmptyMap,
     dept2_name_seen |-> EmptyMap,
     dept3_name_seen |-> EmptyMap,
     resolved_dept2_id |-> <<>>,
     resolved_dept3_id |-> <<>>]

AddIssue(acc, file, row, field) ==
    [acc EXCEPT !.issues = Append(@, ImportIssue(file, row, field))]

\* resolve_dept2 (its issue is added by the caller below)
resolve_dept2(ctx, dept2_id, dept2_name) ==
    IF dept2_id # <<>> THEN dept2_id
    ELSE IF dept2_name # <<>>
         THEN IF NormKey(dept2_name) \in DOMAIN ctx.dept2_to_id
              THEN ctx.dept2_to_id[NormKey(dept2_name)]
              ELSE StableId("d2", <<dept2_name>>)
         ELSE <<>>

\* resolve_dept3
resolve_dept3(ctx, dept2_id, dept3_id, dept3_name) ==
    IF dept3_id # <<>> THEN dept3_id
    ELSE IF dept3_name # <<>>
         THEN IF <<dept2_id, NormKey(dept3_name)>> \in DOMAIN ctx.dept3_to_id
              THEN ctx.dept3_to_id[<<dept2_id, NormKey(dept3_name)>>]
              ELSE StableId("d3", <<dept2_id, dept3_name>>)
         ELSE <<>>

\* the level-3 part of the department block
DeptLevel3(acc, ctx, file, idx, r2, dept3_id, dept3_name) ==
    LET r3 == resolve_dept3(ctx, r2, dept3_id, dept3_name)
        key3 == <<r2, NormKey(dept3_name)>>
        a0 == [acc EXCEPT !.resolved_dept3_id = r3]
    IN  IF r3 = <<>> \/ dept3_name = <<>> THEN a0
        ELSE IF key3 \in DOMAIN ctx.dept3_to_id /\ ctx.dept3_to_id[key3] # r3
             THEN AddIssue(a0, file, idx, "department_level3")
        ELSE IF key3 \in DOMAIN a0.dept3_name_seen /\ a0.dept3_name_seen[key3] # r3
             THEN AddIssue(a0, file, idx, "department_level3")
        ELSE [a0 EXCEPT
                !.dept3_name_seen = Put(@, key3, r3),
                !.dept3_upserts =
                    IF key3 \notin DOMAIN ctx.dept3_to_id
                    THEN Put(@, r3, [department_level2_id |-> r2, name |-> dept3_name])
                    ELSE @]

\* the level-2 part of the department block
DeptLevel2(acc, ctx, file, idx, r2, dept2_name) ==
    LET norm == NormKey(dept2_name)
    IN  IF dept2_name = <<>> THEN acc
        ELSE IF norm \in DOMAIN ctx.dept2_to_id /\ ctx.dept2_to_id[norm] # r2
             THEN AddIssue(acc, file, idx, "department_level2")
        ELSE IF norm \in DOMAIN acc.dept2_name_seen /\ acc.dept2_name_seen[norm] # r2
             THEN AddIssue(acc, file, idx, "department_level2")
        ELSE [acc EXCEPT
                !.dept2_name_seen = Put(@, norm, r2),
                !.dept2_upserts =
                    IF norm \notin DOMAIN ctx.dept2_to_id THEN Put(@, r2, dept2_name) ELSE @]

\* "If any dept fields present ...": the block shared by the member and the repo loop.
\* Leaves the resolved ids in acc.resolved_dept2_id / acc.resolved_dept3_id.
ResolveDepartments(acc, ctx, file, idx, row) ==
    LET dept2_id == Strip(row.department_level2_id)
        dept2_name == Strip(row.department_level2_name)
        dept3_id == Strip(row.department_level3_id)
        dept3_name == Strip(row.department_level3_name)
        has_dept == dept2_id # <<>> \/ dept2_name # <<>> \/ dept3_id # <<>> \/ dept3_name # <<>>
        r2 == resolve_dept2(ctx, dept2_id, dept2_name)
        a0 == [acc EXCEPT !.resolved_dept2_id = <<>>, !.resolved_dept3_id = <<>>]
    IN  IF ~has_dept THEN a0
        ELSE IF r2 = <<>> THEN AddIssue(a0, "member/repo", idx, "department_level2")
        ELSE LET a1 == DeptLevel2([a0 EXCEPT !.resolved_dept2_id = r2], ctx, file, idx, r2, dept2_name)
             IN  IF dept3_id # <<>> \/ dept3_name # <<>>
                 THEN DeptLevel3(a1, ctx, file, idx, r2, dept3_id, dept3_name)
                 ELSE a1

\* emails_dedup: drop blanks and repeats, keep first occurrences in order
RECURSIVE Dedup(_, _)
Dedup(es, seen) ==
    IF es = <<>> THEN <<>>
    ELSE IF Head(es) = <<>> \/ Head(es) \in seen THEN Dedup(Tail(es), seen)
    ELSE <<Head(es)>> \o Dedup(Tail(es), seen \cup {Head(es)})

EmailsDedup(email_raw, email_aliases_raw) ==
    LET al == SplitIdentities(email_aliases_raw)
    IN  Dedup(<<NormKey(email_raw)>> \o [i \in 1..Len(al) |-> NormKey(al[i])], {})

\* BindIdentities without remembering, within the batch, what it has just bound
RECURSIVE BindIdentitiesForgetful(_, _, _, _)
BindIdentitiesForgetful(acc, idx, employee_id_raw, ids) ==
    IF ids = <<>> THEN acc
    ELSE LET key == <<"email", Head(ids)>>
             prev_emp == Get(acc.existing_identity_to_employee, key)
             next == IF prev_emp # <<>> /\ prev_emp # employee_id_raw
                     THEN AddIssue(acc, "member", idx, "email_aliases")
                     ELSE [acc EXCEPT
                             !.identity_upserts = Append(@, <<Head(ids), employee_id_raw>>)]
         IN  BindIdentitiesForgetful(next, idx, employee_id_raw, Tail(ids))

\* BindIdentities without the test of the previous binding
RECURSIVE BindIdentitiesUnchecked(_, _, _, _)
BindIdentitiesUnchecked(acc, idx, employee_id_raw, ids) ==
    IF ids = <<>> THEN acc
    ELSE BindIdentitiesUnchecked(
            [acc EXCEPT
                !.identity_upserts = Append(@, <<Head(ids), employee_id_raw>>),
                !.existing_identity_to_employee = Put(@, <<"email", Head(ids)>>, employee_id_raw)],
            idx, employee_id_raw, Tail(ids))

\* "for identity_l in emails_dedup": reject an identity bound to another employee_id,
\* otherwise queue the upsert and remember the binding for the rest of the batch
RECURSIVE BindIdentities(_, _, _, _)
BindIdentities(acc, idx, employee_id_raw, ids) ==
    IF ids = <<>> THEN acc
    ELSE LET key == <<"email", Head(ids)>>
             prev_emp == Get(acc.existing_identity_to_employee, key)
             next == IF prev_emp # <<>> /\ prev_emp # employee_id_raw
                     THEN AddIssue(acc, "member", idx, "email_aliases")
                     ELSE [acc EXCEPT
                             !.identity_upserts = Append(@, <<Head(ids), employee_id_raw>>),
                             !.existing_identity_to_employee = Put(@, key, employee_id_raw)]
         IN  BindIdentities(next, idx, employee_id_raw, Tail(ids))

\* to_int / to_float: an issue when the trimmed text is not empty and float() fails
NumberIssue(acc, idx, value, field) ==
    IF Strip(value) # <<>> /\ ~ParsesAsNumber(Strip(value))
    THEN AddIssue(acc, "member", idx, field)
    ELSE acc

\* the body of "for idx, row in enumerate(r, start=2)" over the member file
ProcessMemberRow(acc, ctx, idx, row) ==
    LET email_raw == Strip(row.email)
        employee_id_raw == Strip(row.employee_id)
        email_aliases_raw == Strip(row.email_aliases)
        full_name_peek == Strip(row.full_name)
        company_user == CompanyUsernameFromEmail(email_raw)
        canonical_member_key == NormKey(company_user)
        prev_emp_for_mk == Get(ctx.member_key_to_employee_id, canonical_member_key)
        existing_mk == Get(ctx.employee_id_to_member_key, employee_id_raw)
        role_raw == Strip(row.role)
    IN  IF employee_id_raw = <<>> THEN AddIssue(acc, "member", idx, "employee_id")
        ELSE IF full_name_peek = <<>> THEN AddIssue(acc, "member", idx, "full_name")
        ELSE IF email_raw = <<>> THEN AddIssue(acc, "member", idx, "email")
        ELSE IF company_user = <<>> THEN AddIssue(acc, "member", idx, "email")
        ELSE IF prev_emp_for_mk # <<>> /\ prev_emp_for_mk # employee_id_raw
             THEN AddIssue(acc, "member", idx, "email")
        ELSE
          LET a1 == BindIdentities(acc, idx, employee_id_raw,
                                   EmailsDedup(email_raw, email_aliases_raw))
              a2 == IF existing_mk # <<>> /\ existing_mk # canonical_member_key
                    THEN [a1 EXCEPT !.member_keys_to_delete = Append(@, existing_mk)]
                    ELSE a1
              a3 == IF role_raw # <<>> /\ Lower(Strip(role_raw)) \notin ALLOWED_ROLES
                    THEN AddIssue(a2, "member", idx, "role")
                    ELSE a2
              a4 == NumberIssue(a3, idx, row.age, "age")
              a5 == NumberIssue(a4, idx, row.years_of_service, "years_of_service")
              a6 == ResolveDepartments(a5, ctx, "member", idx, row)
          IN  [a6 EXCEPT !.member_upserts = Append(@,
                  [member_key |-> canonical_member_key,
                   full_name |-> full_name_peek,
                   department_level2_id |-> a6.resolved_dept2_id,
                   department_level3_id |-> a6.resolved_dept3_id,
                   role |-> role_raw,
                   employee_id |-> employee_id_raw])]

\* the body of the loop over the repo file
ProcessRepoRow(acc, ctx, idx, row) ==
    LET repo_id == Strip(row.repo_id)
    IN  IF repo_id = <<>> THEN AddIssue(acc, "repo", idx, "repo_id")
        ELSE LET a1 == ResolveDepartments(acc, ctx, "repo", idx, row)
             IN  [a1 EXCEPT !.repo_upserts = Append(@,
                     [repo_id |-> repo_id,
                      department_level2_id |-> a1.resolved_dept2_id,
                      department_level3_id |-> a1.resolved_dept3_id])]

\* the two loops; csv rows are numbered from 2
RECURSIVE MemberLoop(_, _, _, _)
MemberLoop(acc, ctx, rows, idx) ==
    IF rows = <<>> THEN acc
    ELSE MemberLoop(ProcessMemberRow(acc, ctx, idx, Head(rows)), ctx, Tail(rows), idx + 1)

RECURSIVE RepoLoop(_, _, _, _)
RepoLoop(acc, ctx, rows, idx) ==
    IF rows = <<>> THEN acc
    ELSE RepoLoop(ProcessRepoRow(acc, ctx, idx, Head(rows)), ctx, Tail(rows), idx + 1)

\* "if not auto_create_departments": every department the batch would create is an issue
RECURSIVE IssuePerKey(_, _, _)
IssuePerKey(acc, keys, field) ==
    IF keys = {} THEN acc
    ELSE LET k == CHOOSE x \in keys : TRUE
         IN  IssuePerKey(AddIssue(acc, "departments", 0, field), keys \ {k}, field)

DepartmentsNotFound(acc, auto_create_departments) ==
    IF auto_create_departments THEN acc
    ELSE IssuePerKey(IssuePerKey(acc, DOMAIN acc.dept2_upserts, "department_level2"),
                     DOMAIN acc.dept3_upserts, "department_level3")

\* stage 1 as a whole
Validate(ctx, bridge, member_rows, repo_rows, auto_create_departments) ==
    DepartmentsNotFound(
        RepoLoop(MemberLoop(NewAcc(bridge), ctx, member_rows, 2), ctx, repo_rows, 2),
        auto_create_departments)

(***************************************************************************)
(* DimAdmin.import_dim_info, stage 2: the writes, in the order of the code *)
(***************************************************************************)
\* DELETE FROM gold.dim_member_enrichment WHERE member_key = ?
DeleteMemberKeys(enr, keys) == Remove(enr, {keys[i] : i \in 1..Len(keys)})

\* INSERT ... ON CONFLICT (member_key) DO UPDATE, one row after the other
RECURSIVE UpsertMembers(_, _)
UpsertMembers(enr, rows) ==
    IF rows = <<>> THEN enr
    ELSE UpsertMembers(
            Put(enr, Head(rows).member_key,
                [employee_id |-> Head(rows).employee_id,
                 full_name |-> Head(rows).full_name,
                 role |-> Head(rows).role,
                 department_level2_id |-> Head(rows).department_level2_id,
                 department_level3_id |-> Head(rows).department_level3_id]),
            Tail(rows))

\* INSERT ... ON CONFLICT (kind, identity_l) DO UPDATE SET employee_id = EXCLUDED.employee_id
RECURSIVE UpsertIdentities(_, _)
UpsertIdentities(bridge, rows) ==
    IF rows = <<>> THEN bridge
    ELSE UpsertIdentities(Put(bridge, <<"email", Head(rows)[1]>>, Head(rows)[2]), Tail(rows))

\* INSERT ... ON CONFLICT (department_levelN_id) DO UPDATE
UpsertDepartments(tbl, upserts) ==
    [id \in (DOMAIN tbl) \cup (DOMAIN upserts) |->
        IF id \in DOMAIN upserts THEN upserts[id] ELSE tbl[id]]

\* INSERT ... ON CONFLICT (repo_id) DO UPDATE
RECURSIVE UpsertRepos(_, _)
UpsertRepos(tbl, rows) ==
    IF rows = <<>> THEN tbl
    ELSE UpsertRepos(
            Put(tbl, Head(rows).repo_id,
                [department_level2_id |-> Head(rows).department_level2_id,
                 department_level3_id |-> Head(rows).department_level3_id]),
            Tail(rows))

(***************************************************************************)
(* The rows an import call may be given.                                   *)
(***************************************************************************)
BlankMemberRow ==
    [employee_id |-> <<>>, full_name |-> <<>>, email |-> <<>>, email_aliases |-> <<>>,
     role |-> <<>>, age |-> <<>>, years_of_service |-> <<>>,
     department_level2_id |-> <<>>, department_level2_name |-> <<>>,
     department_level3_id |-> <<>>, department_level3_name |-> <<>>]

MemberRow(e, n, em) == [BlankMemberRow EXCEPT !.employee_id = e, !.full_name = n, !.email = em]

E1 == <<"E1">>
E2 == <<"E2">>
Mail_ab == <<"a", ".", "b", "@", "clife.cn">>
Mail_AB == <<" ", "A", ".", "B", "@", "clife.cn">>
Mail_cd == <<"c", ".", "d", "@", "clife.cn">>
Mail_801 == <<"8", "0", "1", "@", "clife.cn">>
Mail_ext == <<"a", ".", "b", "@", "ext.com">>

MemberRowPool ==
    { MemberRow(E1, <<"Ann">>, Mail_ab),
      MemberRow(E2, <<"Bob">>, Mail_AB),
      [MemberRow(E2, <<"Bob">>, Mail_cd) EXCEPT
          !.email_aliases = Mail_ab \o <<";", " ">> \o Mail_cd,
          !.department_level2_name = <<"R", "D">>],
      [MemberRow(E1, <<"Ann">>, Mail_cd) EXCEPT
          !.department_level2_id = <<"x", "2">>,
          !.department_level2_name = <<"r", "d">>,
          !.department_level3_name = <<"a">>],
      [MemberRow(<<" ", "E2">>, <<"Bob">>, Mail_801) EXCEPT
          !.role = <<"JavaBackend">>, !.age = <<"1", "8">>, !.years_of_service = <<"1", ".", "8">>],
      MemberRow(E1, <<"Ann">>, Mail_ext),
      [MemberRow(E1, <<"Ann">>, Mail_ab) EXCEPT !.role = <<"b", "a", "d">>, !.age = <<"1", "a">>] }

BlankRepoRow ==
    [repo_id |-> <<>>,
     department_level2_id |-> <<>>, department_level2_name |-> <<>>,
     department_level3_id |-> <<>>, department_level3_name |-> <<>>]

RepoRowPool ==
    { [BlankRepoRow EXCEPT !.repo_id = <<"R1">>,
          !.department_level2_name = <<"R", "D">>, !.department_level3_name = <<"A">>],
      [BlankRepoRow EXCEPT !.repo_id = <<"R1">>,
          !.department_level2_id = <<"x", "2">>, !.department_level2_name = <<"R", "D">>] }

\* sequences over S of length at most n
SeqUpTo(S, n) == UNION {[1..k -> S] : k \in 0..n}

\* a row of dim_member_enrichment left by an earlier version: a placeholder key
LegacyRow ==
    [employee_id |-> E1, full_name |-> <<"Ann">>, role |-> <<>>,
     department_level2_id |-> <<>>, department_level3_id |-> <<>>]

(***************************************************************************)
(* DimAdmin.import_dim_info as one step.                                   *)
(***************************************************************************)
\* stage 2 entered whatever the issues
StageTwoRunsDespiteIssues(issues, dry_run) == ~dry_run

\* "if issues: return" then "if dry_run: return": stage 2 runs only past both
StageTwoRuns(issues, dry_run) == issues = <<>> /\ ~dry_run

\* a row of the batch names an identity that the bridge binds to another employee_id
Rebinds(bridge, member_rows) ==
    \E i \in 1..Len(member_rows) :
        LET ids == EmailsDedup(Strip(member_rows[i].email), Strip(member_rows[i].email_aliases))
        IN  /\ Strip(member_rows[i].employee_id) # <<>>
            /\ \E n \in 1..Len(ids) :
                  /\ <<"email", ids[n]>> \in DOMAIN bridge
                  /\ bridge[<<"email", ids[n]>>] # Strip(member_rows[i].employee_id)

\* two rows of the batch bind one normalized e-mail to two different employee_ids
BindsTwice(member_rows) ==
    \E i, j \in 1..Len(member_rows) :
        /\ i # j
        /\ Strip(member_rows[i].employee_id) # <<>>
        /\ Strip(member_rows[j].employee_id) # <<>>
        /\ Strip(member_rows[i].employee_id) # Strip(member_rows[j].employee_id)
        /\ NormKey(member_rows[i].email) # <<>>
        /\ NormKey(member_rows[i].email) = NormKey(member_rows[j].email)

ImportDimInfo(member_rows, repo_rows, dry_run, auto_create_departments) ==
    \E e2m \in EmployeeIdToMemberKeyChoices(dim_member_enrichment) :
        \E ctx \in {[dept2_to_id |-> Dept2ToId(dim_department_level2),
                     dept3_to_id |-> Dept3ToId(dim_department_level3),
                     member_key_to_employee_id |-> MemberKeyToEmployeeId(dim_member_enrichment),
                     employee_id_to_member_key |-> e2m]} :
        \E acc \in {Validate(ctx, bridge_employee_identity, member_rows, repo_rows,
                              auto_create_departments)} :
        \E write \in {StageTwoRuns(acc.issues, dry_run)} :
            /\ dim_member_enrichment' =
                IF write
                THEN UpsertMembers(
                        DeleteMemberKeys(dim_member_enrichment, acc.member_keys_to_delete),
                        acc.member_upserts)
                ELSE dim_member_enrichment
            /\ dim_department_level2' =
                IF write THEN UpsertDepartments(dim_department_level2, acc.dept2_upserts)
                ELSE dim_department_level2
            /\ dim_department_level3' =
                IF write THEN UpsertDepartments(dim_department_level3, acc.dept3_upserts)
                ELSE dim_department_level3
            /\ bridge_employee_identity' =
                IF write THEN UpsertIdentities(bridge_employee_identity, acc.identity_upserts)
                ELSE bridge_employee_identity
            /\ dim_repo_enrichment' =
                IF write THEN UpsertRepos(dim_repo_enrichment, acc.repo_upserts)
                ELSE dim_repo_enrichment
            /\ last' = [op |-> "import_dim_info",
                        issues |-> acc.issues,
                        dry_run |-> dry_run,
                        queued |-> acc.member_upserts # <<>> \/ acc.repo_upserts # <<>>,
                        binds_twice |-> BindsTwice(member_rows),
                        rebinds |-> Rebinds(bridge_employee_identity, member_rows)]

ImportDim ==
    \E member_rows \in SeqUpTo(MemberRowPool, MaxRows - rows_given) :
        \E repo_rows \in SeqUpTo(RepoRowPool, MaxRows - rows_given - Len(member_rows)) :
            \E dry_run, auto_create_departments \in BOOLEAN :
                /\ ImportDimInfo(member_rows, repo_rows, dry_run, auto_create_departments)
                /\ rows_given' = rows_given + Len(member_rows) + Len(repo_rows)
                /\ UNCHANGED <<projectVars, reportVars, scoreVars, ingestVars>>

(***************************************************************************)
(* ProjectAdmin.import_project_info (project_admin.py), CSV inputs.        *)
(* The stats counters (warnings) are not modelled: nothing reads them.     *)
(***************************************************************************)
\* project_admin._norm_id: lower-case, every run of characters outside [a-z0-9] becomes
\* one "_", and leading/trailing "_" are dropped
RECURSIVE Collapse(_, _)
Collapse(s, pending) ==
    IF s = <<>> THEN <<>>
    ELSE IF IsAlnum(Head(s))
         THEN (IF pending THEN <<"_">> ELSE <<>>) \o <<Head(s)>> \o Collapse(Tail(s), FALSE)
         ELSE Collapse(Tail(s), TRUE)

RECURSIVE NormIdFrom(_)
NormIdFrom(s) ==
    IF s = <<>> THEN <<>>
    ELSE IF IsAlnum(Head(s)) THEN <<Head(s)>> \o Collapse(Tail(s), FALSE)
    ELSE NormIdFrom(Tail(s))

NormId(s) == NormIdFrom(Lower(Strip(s)))

\* project_admin._pinyin_project_id on a name without Chinese characters
PinyinProjectId(project_name) == NormId(project_name)

\* dt.date.max
DateMax == 9999

\* project_admin._parse_date: None for blank text, a day number for an ISO date, and
\* ValueError otherwise
ParseDate(s) ==
    LET t == Strip(s)
    IN  IF t = <<>> THEN [ok |-> TRUE, none |-> TRUE, day |-> 0]
        ELSE IF t = <<"2024-01-01">> THEN [ok |-> TRUE, none |-> FALSE, day |-> 1]
        ELSE IF t = <<"2024-02-01">> THEN [ok |-> TRUE, none |-> FALSE, day |-> 2]
        ELSE IF t = <<"2024-03-01">> THEN [ok |-> TRUE, none |-> FALSE, day |-> 3]
        ELSE [ok |-> FALSE, none |-> FALSE, day |-> 0]

DigitValue(c) == CASE c = "0" -> 0 [] c = "1" -> 1 [] c = "8" -> 8 [] OTHER -> 0

RECURSIVE DigitsValue(_)
DigitsValue(s) == IF s = <<>> THEN 0 ELSE DigitsValue(SubSeq(s, 1, Len(s) - 1)) * 10 + DigitValue(s[Len(s)])

\* float(s) of a decimal text, in hundredths (the texts used have at most two decimals)
FloatValue100(s) ==
    LET dot == IF \E i \in 1..Len(s) : s[i] = "." THEN CHOOSE i \in 1..Len(s) : s[i] = "." ELSE Len(s) + 1
        frac == SubSeq(s, dot + 1, Len(s))
    IN  DigitsValue(SubSeq(s, 1, dot - 1)) * 100
        + (IF Len(frac) = 0 THEN 0
           ELSE IF Len(frac) = 1 THEN DigitValue(frac[1]) * 10
           ELSE DigitValue(frac[1]) * 10 + DigitValue(frac[2]))

\* "_parse_float(text) or 1.0": blank and zero both become 1.0
ParseFloatOrOne(s) ==
    LET t == Strip(s)
    IN  IF t = <<>> THEN [ok |-> TRUE, v |-> 100]
        ELSE IF ~ParsesAsNumber(t) THEN [ok |-> FALSE, v |-> 0]
        ELSE [ok |-> TRUE, v |-> IF FloatValue100(t) = 0 THEN 100 ELSE FloatValue100(t)]

\* project_admin._ranges_overlap; an open end is stored as 0
ranges_overlap(a_start, a_end, b_start, b_end) ==
    LET a2 == IF a_end = 0 THEN DateMax ELSE a_end
        b2 == IF b_end = 0 THEN DateMax ELSE b_end
    IN  ~(a2 < b_start \/ b2 < a_start)


\* existing_project_name_to_id: when two projects carry one name, the row read last wins
ExistingProjectNameToIdChoices(proj) ==
    LET named == {pid \in DOMAIN proj : proj[pid] # <<>>}
        names == {Strip(proj[pid]) : pid \in named}
    IN  {f \in [names -> {NormId(pid) : pid \in named}] :
            \A n \in names : \E pid \in named : Strip(proj[pid]) = n /\ f[n] = NormId(pid)}

FullNameToEmployeeIds(enr) ==
    LET rows == {mk \in DOMAIN enr : Strip(enr[mk].employee_id) # <<>> /\ Strip(enr[mk].full_name) # <<>>}
    IN  [n \in {Strip(enr[mk].full_name) : mk \in rows} |->
            {Strip(enr[mk].employee_id) : mk \in {k \in rows : Strip(enr[k].full_name) = n}}]

NewProjectAcc ==
    [issues |-> <<>>, projects |-> <<>>, repo_rows |-> <<>>, member_rows |-> <<>>,
     project_name_to_id |-> EmptyMap]

\* resolve_project_id (<<>> for None; the caller adds the issue)
resolve_project_id(acc, pctx, project_id, project_name) ==
    LET pid == NormId(project_id)
        pname == Strip(project_name)
    IN  IF pid # <<>> THEN pid
        ELSE IF pname = <<>> THEN <<>>
        ELSE IF pname \in DOMAIN acc.project_name_to_id THEN acc.project_name_to_id[pname]
        ELSE IF pname \in DOMAIN pctx.existing_project_name_to_id
             THEN pctx.existing_project_name_to_id[pname]
        ELSE PinyinProjectId(pname)

\* resolve_employee_id (<<>> for None; the caller adds the issue)
resolve_employee_id(pctx, employee_id, full_name) ==
    LET eid == Strip(employee_id)
        name == Strip(full_name)
        ids == Get(pctx.full_name_to_employee_ids, name)
    IN  IF eid # <<>> THEN eid
        ELSE IF name = <<>> \/ name \notin DOMAIN pctx.full_name_to_employee_ids THEN <<>>
        ELSE IF Cardinality(ids) # 1 THEN <<>>
        ELSE CHOOSE e \in ids : TRUE

\* the loop body over the project file
ProcessProjectRow(acc, idx, row) ==
    LET project_name == Strip(row.project_name)
        given == Strip(row.project_id)
        project_id == NormId(IF given = <<>> THEN PinyinProjectId(project_name) ELSE given)
    IN  IF project_name = <<>> THEN AddIssue(acc, "project", idx, "project_name")
        ELSE IF project_id = <<>> THEN AddIssue(acc, "project", idx, "project_id")
        ELSE [acc EXCEPT
                !.project_name_to_id = Put(@, project_name, project_id),
                !.projects = Append(@, [project_id |-> project_id, project_name |-> project_name])]

\* the date block shared by the repo and the member loop: TRUE when it raises
DateError(row) ==
    LET start_at == ParseDate(row.start_at)
        end_at == ParseDate(row.end_at)
    IN  \/ ~start_at.ok
        \/ ~end_at.ok
        \/ start_at.none
        \/ ~end_at.none /\ end_at.day < start_at.day

\* the loop body over the project_repo file
ProcessProjectRepoRow(acc, pctx, idx, row) ==
    LET repo_id == Strip(row.repo_id)
        resolved_pid == resolve_project_id(acc, pctx, row.project_id, row.project_name)
        weight == ParseFloatOrOne(row.weight)
    IN  IF resolved_pid = <<>> THEN AddIssue(acc, "project_repo", idx, "project_id")
        ELSE IF repo_id = <<>> THEN AddIssue(acc, "project_repo", idx, "repo_id")
        ELSE IF DateError(row) THEN AddIssue(acc, "project_repo", idx, "date")
        ELSE IF ~weight.ok THEN AddIssue(acc, "project_repo", idx, "weight")
        ELSE IF ~(0 < weight.v /\ weight.v <= 100) THEN AddIssue(acc, "project_repo", idx, "weight")
        ELSE [acc EXCEPT !.repo_rows = Append(@,
                [project_id |-> resolved_pid, repo_id |-> repo_id,
                 start_at |-> ParseDate(row.start_at).day, end_at |-> ParseDate(row.end_at).day,
                 weight |-> weight.v])]

\* the loop body over the project_member file
ProcessProjectMemberRow(acc, pctx, idx, row) ==
    LET resolved_pid == resolve_project_id(acc, pctx, row.project_id, row.project_name)
        resolved_eid == resolve_employee_id(pctx, row.employee_id, row.full_name)
        project_role == IF Strip(row.project_role) = <<>> THEN <<"member">> ELSE Strip(row.project_role)
        allocation == ParseFloatOrOne(row.allocation)
    IN  IF resolved_pid = <<>> THEN AddIssue(acc, "project_member", idx, "project_id")
        ELSE IF resolved_eid = <<>> THEN AddIssue(acc, "project_member", idx, "employee_id")
        ELSE IF DateError(row) THEN AddIssue(acc, "project_member", idx, "date")
        ELSE IF ~allocation.ok THEN AddIssue(acc, "project_member", idx, "allocation")
        ELSE IF ~(0 < allocation.v /\ allocation.v <= 100)
             THEN AddIssue(acc, "project_member", idx, "allocation")
        ELSE [acc EXCEPT !.member_rows = Append(@,
                [project_id |-> resolved_pid, employee_id |-> resolved_eid,
                 project_role |-> project_role,
                 start_at |-> ParseDate(row.start_at).day, end_at |-> ParseDate(row.end_at).day,
                 allocation |-> allocation.v])]

RECURSIVE ProjectLoop(_, _, _)
ProjectLoop(acc, rows, idx) ==
    IF rows = <<>> THEN acc
    ELSE ProjectLoop(ProcessProjectRow(acc, idx, Head(rows)), Tail(rows), idx + 1)

RECURSIVE ProjectRepoLoop(_, _, _, _)
ProjectRepoLoop(acc, pctx, rows, idx) ==
    IF rows = <<>> THEN acc
    ELSE ProjectRepoLoop(ProcessProjectRepoRow(acc, pctx, idx, Head(rows)), pctx, Tail(rows), idx + 1)

RECURSIVE ProjectMemberLoop(_, _, _, _)
ProjectMemberLoop(acc, pctx, rows, idx) ==
    IF rows = <<>> THEN acc
    ELSE ProjectMemberLoop(ProcessProjectMemberRow(acc, pctx, idx, Head(rows)), pctx, Tail(rows), idx + 1)

\* sorted(ranges, key=lambda x: x[0]): stable, by start_at only
RECURSIVE InsertByStart(_, _)
InsertByStart(sorted, r) ==
    IF sorted = <<>> THEN <<r>>
    ELSE IF r.start_at < Head(sorted).start_at THEN <<r>> \o sorted
    ELSE <<Head(sorted)>> \o InsertByStart(Tail(sorted), r)

RECURSIVE SortByStart(_)
SortByStart(rows) ==
    IF rows = <<>> THEN <<>>
    ELSE InsertByStart(SortByStart(SubSeq(rows, 1, Len(rows) - 1)), rows[Len(rows)])

\* the inner loop of check_overlaps_*: two neighbours of the sorted list overlap
NeighboursOverlap(sorted) ==
    \E i \in 2..Len(sorted) :
        ranges_overlap(sorted[i-1].start_at, sorted[i-1].end_at, sorted[i].start_at, sorted[i].end_at)

RepoKey(r) == <<r.project_id, r.repo_id>>
MemberKey(r) == <<r.project_id, r.employee_id, Lower(Strip(r.project_role))>>

\* check_overlaps_repo: one issue for the first (project_id, repo_id) whose ranges overlap
check_overlaps_repo(acc) ==
    IF \E i \in 1..Len(acc.repo_rows) :
          NeighboursOverlap(SortByStart(
              SelectSeq(acc.repo_rows, LAMBDA r : RepoKey(r) = RepoKey(acc.repo_rows[i]))))
    THEN AddIssue(acc, "project_repo", 0, "date")
    ELSE acc

\* check_overlaps_member: the same per (project_id, employee_id, project_role)
check_overlaps_member(acc) ==
    IF \E i \in 1..Len(acc.member_rows) :
          NeighboursOverlap(SortByStart(
              SelectSeq(acc.member_rows, LAMBDA r : MemberKey(r) = MemberKey(acc.member_rows[i]))))
    THEN AddIssue(acc, "project_member", 0, "date")
    ELSE acc

\* the validation as a whole
ValidateProject(pctx, project_rows, repo_rows, member_rows) ==
    LET a1 == ProjectLoop(NewProjectAcc, project_rows, 2)
        a2 == ProjectRepoLoop(a1, pctx, repo_rows, 2)
        a3 == ProjectMemberLoop(a2, pctx, member_rows, 2)
    IN  check_overlaps_member(check_overlaps_repo(a3))

\* the three INSERT ... ON CONFLICT ... DO UPDATE statements
RECURSIVE UpsertProjects(_, _)
UpsertProjects(tbl, rows) ==
    IF rows = <<>> THEN tbl
    ELSE UpsertProjects(Put(tbl, Head(rows).project_id, Head(rows).project_name), Tail(rows))

RECURSIVE UpsertProjectRepos(_, _)
UpsertProjectRepos(tbl, rows) ==
    IF rows = <<>> THEN tbl
    ELSE UpsertProjectRepos(
            Put(tbl, <<Head(rows).project_id, Head(rows).repo_id, Head(rows).start_at>>,
                [end_at |-> Head(rows).end_at, weight |-> Head(rows).weight]),
            Tail(rows))

RECURSIVE UpsertProjectMembers(_, _)
UpsertProjectMembers(tbl, rows) ==
    IF rows = <<>> THEN tbl
    ELSE UpsertProjectMembers(
            Put(tbl, <<Head(rows).project_id, Head(rows).employee_id, Head(rows).project_role,
                       Head(rows).start_at>>,
                [end_at |-> Head(rows).end_at, allocation |-> Head(rows).allocation]),
            Tail(rows))

BlankProjectRow ==
    [project_id |-> <<>>, project_name |-> <<>>, repo_id |-> <<>>, employee_id |-> <<>>,
     full_name |-> <<>>, project_role |-> <<>>, start_at |-> <<>>, end_at |-> <<>>,
     weight |-> <<>>, allocation |-> <<>>]

ProjectRowPool ==
    { [BlankProjectRow EXCEPT !.project_name = <<"A", " ", "B">>],
      [BlankProjectRow EXCEPT !.project_id = <<"a", "b">>] }

ProjectRepoRowPool ==
    { [BlankProjectRow EXCEPT !.project_name = <<"A", " ", "B">>, !.repo_id = <<"R1">>,
          !.start_at = <<"2024-01-01">>, !.weight = <<"0">>],
      [BlankProjectRow EXCEPT !.project_id = <<"A", ".", "b">>, !.repo_id = <<"R1">>,
          !.start_at = <<"2024-02-01">>, !.end_at = <<"2024-03-01">>, !.weight = <<"1", ".", "8">>] }

ProjectMemberRowPool ==
    { [BlankProjectRow EXCEPT !.project_id = <<"a", "_", "b">>, !.full_name = <<"Ann">>,
          !.start_at = <<"2024-01-01">>, !.allocation = <<"0", ".", "8">>],
      [BlankProjectRow EXCEPT !.project_id = <<"a", "_", "b">>, !.employee_id = E1,
          !.start_at = <<"2024-02-01">>, !.end_at = <<"2024-01-01">>] }

\* "if issues: return" then "if dry_run: return" of import_project_info
ProjectWritesRun(issues, dry_run) == issues = <<>> /\ ~dry_run

(***************************************************************************)
(* ProjectAdmin.import_project_info as one step.                           *)
(***************************************************************************)
ImportProjectInfo(project_rows, repo_rows, member_rows, dry_run) ==
    \E names \in ExistingProjectNameToIdChoices(dim_project) :
    \E pctx \in {[existing_project_name_to_id |-> names,
                  full_name_to_employee_ids |-> FullNameToEmployeeIds(dim_member_enrichment)]} :
    \E acc \in {ValidateProject(pctx, project_rows, repo_rows, member_rows)} :
    \E write \in {ProjectWritesRun(acc.issues, dry_run)} :
        /\ dim_project' = IF write THEN UpsertProjects(dim_project, acc.projects) ELSE dim_project
        /\ bridge_project_repo' =
            IF write THEN UpsertProjectRepos(bridge_project_repo, acc.repo_rows)
            ELSE bridge_project_repo
        /\ bridge_project_person_role' =
            IF write THEN UpsertProjectMembers(bridge_project_person_role, acc.member_rows)
            ELSE bridge_project_person_role
        /\ last' = [op |-> "import_project_info",
                    issues |-> acc.issues,
                    dry_run |-> dry_run,
                    queued |-> acc.projects # <<>> \/ acc.repo_rows # <<>> \/ acc.member_rows # <<>>,
                    binds_twice |-> FALSE,
                    rebinds |-> FALSE]

ImportProject ==
    \E project_rows \in SeqUpTo(ProjectRowPool, MaxRows - rows_given) :
        \E repo_rows \in SeqUpTo(ProjectRepoRowPool, MaxRows - rows_given - Len(project_rows)) :
            \E member_rows \in SeqUpTo(ProjectMemberRowPool,
                                       MaxRows - rows_given - Len(project_rows) - Len(repo_rows)) :
                \E dry_run \in BOOLEAN :
                    /\ ImportProjectInfo(project_rows, repo_rows, member_rows, dry_run)
                    /\ rows_given' = rows_given + Len(project_rows) + Len(repo_rows) + Len(member_rows)
                    /\ UNCHANGED <<dimVars, reportVars, scoreVars, ingestVars>>

(***************************************************************************)
(* The lake (lake.py) and Warehouse.build (warehouse.py).                  *)
(*                                                                         *)
(* A stored commit carries the columns the reports read.  committed_at is  *)
(* kept as the commit's age in days at the time the reports run, author_id *)
(* is NULL throughout, and silver.members / silver.top_contributors are    *)
(* empty, so gold.dim_member_base is derived from the commit authors.      *)
(***************************************************************************)
\* the collation of SQL text, per token; an atom sorts as its first character does, the
\* two employee ids in their own order
CharCode(c) ==
    CASE c = " " -> 320 [] c = "." -> 460 [] c = "0" -> 480 [] c = "1" -> 490
      [] c = "8" -> 560 [] c = "@" -> 640 [] c = "A" -> 650 [] c = "B" -> 660
      [] c = "D" -> 680 [] c = "E1" -> 691 [] c = "E2" -> 692 [] c = "R" -> 820
      [] c = "a" -> 970 [] c = "b" -> 980 [] c = "c" -> 990 [] c = "clife.cn" -> 991
      [] c = "d" -> 1000 [] c = "dummy_" -> 1001 [] c = "ext.com" -> 1010
      [] c = "partner-" -> 1120 [] c = "r" -> 1140
      [] c = "Ann" -> 651 [] c = "Bob" -> 661 [] c = "Cid" -> 671 [] c = "Dee" -> 681
      [] c = "Eve" -> 693 [] c = "M1" -> 771 [] c = "M2" -> 772 [] c = "Unassigned" -> 850
      [] OTHER -> 2000

\* a < b for SQL text
RECURSIVE TextLess(_, _)
TextLess(a, b) ==
    IF b = <<>> THEN FALSE
    ELSE IF a = <<>> THEN TRUE
    ELSE IF Head(a) = Head(b) THEN TextLess(Tail(a), Tail(b))
    ELSE CharCode(Head(a)) < CharCode(Head(b))

\* MIN(...) and MAX(...) over the non-NULL texts of a group; NULL (<<>>) when there is none
MinText(S) ==
    IF S \ {<<>>} = {} THEN <<>>
    ELSE CHOOSE x \in S \ {<<>>} : \A y \in S \ {<<>>} : x = y \/ TextLess(x, y)

MaxText(S) ==
    IF S \ {<<>>} = {} THEN <<>>
    ELSE CHOOSE x \in S \ {<<>>} : \A y \in S \ {<<>>} : x = y \/ TextLess(y, x)

\* the member_key of a corporate mailbox: its local part, with "partner-" before digits
CorpMemberKey(email_l) ==
    IF AllDigits(LocalPart(email_l)) THEN <<"partner-">> \o LocalPart(email_l)
    ELSE LocalPart(email_l)

\* the user-name pattern (?:[a-z0-9]+\.[a-z0-9]+|[0-9]+|partner-[0-9]+) as a full match
MatchesUsernamePattern(u) ==
    \/ AllDigits(u)
    \/ Len(u) > 1 /\ u[1] = "partner-" /\ AllDigits(Tail(u))
    \/ \E k \in 1..Len(u) :
         u[k] = "." /\ AllAlnum(SubSeq(u, 1, k - 1)) /\ AllAlnum(SubSeq(u, k + 1, Len(u)))

\* CREATE TABLE gold.dim_member_base: member_key -> [username, email]
DimMemberBase(commits) ==
    LET u == {[username |-> c.author_username, email |-> c.author_email] :
                c \in {x \in commits : x.author_username # <<>> \/ x.author_email # <<>>}}
        keyOf(r) ==
            IF MatchesCompanyPattern(Lower(r.email)) THEN CorpMemberKey(Lower(r.email))
            ELSE IF MatchesUsernamePattern(Lower(r.username)) THEN Lower(r.username)
            ELSE IF r.username # <<>> THEN Lower(r.username)
            ELSE Lower(r.email)
    IN  [k \in {keyOf(r) : r \in u} |->
            [username |-> MaxText({r.username : r \in {x \in u : keyOf(x) = k}}),
             email |-> MaxText({r.email : r \in {x \in u : keyOf(x) = k}})]]

\* the corp_email CTE: the least corporate mailbox bound to an employee, NULL without one
CorpEmail(bridge, employee_id) ==
    MinText({k[2] : k \in {x \in DOMAIN bridge :
                            /\ x[1] = "email"
                            /\ bridge[x] = employee_id
                            /\ MatchesCompanyPattern(x[2])}})

\* one row of gold.fact_commit
FactCommitRow(c, bridge, stats) ==
    LET email_l == Lower(c.author_email)
        employee_id == IF email_l = <<>> THEN <<>> ELSE Get(bridge, <<"email", email_l>>)
        company_email == IF employee_id = <<>> THEN <<>> ELSE CorpEmail(bridge, employee_id)
        has_stat == <<c.repo_id, c.sha>> \in DOMAIN stats
        s == stats[<<c.repo_id, c.sha>>]
    IN  [repo_id |-> c.repo_id,
         commit_sha |-> c.sha,
         member_key |->
            IF MatchesCompanyPattern(email_l) THEN CorpMemberKey(email_l)
            ELSE IF company_email # <<>> THEN CorpMemberKey(company_email)
            ELSE IF email_l # <<>> THEN email_l
            ELSE Lower(c.author_username),
         author_username |->
            IF MatchesCompanyPattern(email_l) THEN CorpMemberKey(email_l)
            ELSE IF company_email # <<>> THEN CorpMemberKey(company_email)
            ELSE c.author_username,
         author_email |-> c.author_email,
         age_days |-> c.age_days,
         changed_lines |-> IF has_stat THEN s.additions + s.deletions
                           ELSE c.additions + c.deletions]

\* the COPY that writes gold.fact_commit
FactCommit(commits, bridge, stats) ==
    {FactCommitRow(c, bridge, stats) : c \in {x \in commits : x.sha # <<>>}}

(***************************************************************************)
(* Commit attribution in the reports (warehouse.py).                       *)
(***************************************************************************)
DEV_ROLES == {<<"JavaBackend">>, <<"DataDev">>}

\* the employees CTE: enrichment rows with a full_name and an employee_id, with the
\* username and email of the dim_member_base row of the same member_key
Employees(enr, base) ==
    {[member_key |-> mk,
      employee_id |-> enr[mk].employee_id,
      full_name |-> enr[mk].full_name,
      role |-> enr[mk].role,
      username |-> IF mk \in DOMAIN base THEN base[mk].username ELSE <<>>,
      email |-> IF mk \in DOMAIN base THEN base[mk].email ELSE <<>>] :
        mk \in {k \in DOMAIN enr :
                  Strip(enr[k].full_name) # <<>> /\ Strip(enr[k].employee_id) # <<>>}}

\* emp_email_map and emp_username_map, looked up: MIN(member_key) of the group, or NULL
EmpEmailMap(emps, email_l) ==
    IF email_l = <<>> THEN <<>>
    ELSE MinText({e.member_key : e \in {x \in emps : x.email # <<>> /\ Lower(x.email) = email_l}})

EmpUsernameMap(emps, username_l) ==
    IF username_l = <<>> THEN <<>>
    ELSE MinText({e.member_key :
                    e \in {x \in emps : x.username # <<>> /\ Lower(x.username) = username_l}})

\* the resolved CTE: COALESCE(e0.member_key, em.member_key, eu.member_key), where e0 is
\* joined from the report's own employee set
ResolvedMemberKey(fc, e0_set, emps) ==
    IF \E e \in e0_set : e.member_key = fc.member_key THEN fc.member_key
    ELSE IF EmpEmailMap(emps, Lower(fc.author_email)) # <<>>
         THEN EmpEmailMap(emps, Lower(fc.author_email))
    ELSE EmpUsernameMap(emps, Lower(fc.author_username))

\* person_id of the row joined on the resolved member_key; NULL when the join finds none
PersonId(joined, member_key) ==
    IF \E e \in joined : e.member_key = member_key
    THEN Strip((CHOOSE e \in joined : e.member_key = member_key).employee_id)
    ELSE <<>>

\* gold.fact_commit_employee: the employee_id picked for a commit (NULL: no row)
FactCommitEmployee(fc, emps, bridge) ==
    LET identity_map ==
            {<<Lower(e.email), Strip(e.employee_id)>> : e \in {x \in emps : x.email # <<>>}}
            \cup {<<k[2], bridge[k]>> : k \in {x \in DOMAIN bridge : x[1] = "email"}}
        employee_dim == {Strip(e.employee_id) : e \in emps}
    IN  IF fc.author_email = <<>> THEN <<>>
        ELSE MinText({m[2] : m \in {x \in identity_map :
                                      x[1] = Lower(fc.author_email) /\ x[2] \in employee_dim}})

\* committed_at >= now - 30 * months days
InWindow(fc, m) == fc.age_days <= 30 * m

\* COALESCE(cs.is_merge, FALSE)
IsMerge(stats, k) == k \in DOMAIN stats /\ stats[k].is_merge

RECURSIVE SumColumn(_, _)
SumColumn(rows, column) ==
    IF rows = {} THEN 0
    ELSE LET r == CHOOSE x \in rows : TRUE
         IN  r[column] + SumColumn(rows \ {r}, column)

\* GROUP BY person: COUNT(*) and SUM(changed_lines) over the rows a report counts
PerPerson(rows, attribution) ==
    [p \in {attribution[<<r.repo_id, r.commit_sha>>] : r \in rows} \ {<<>>} |->
        [commit_count |-> Cardinality({r \in rows : attribution[<<r.repo_id, r.commit_sha>>] = p}),
         changed_lines |->
            SumColumn({r \in rows : attribution[<<r.repo_id, r.commit_sha>>] = p},
                      "changed_lines")]]

\* active_employee_score_data up to per_person_base
ActiveEmployeeScorePeople(fact, stats, emps, m) ==
    LET window_commits == {fc \in fact : InWindow(fc, m)}
        attribution ==
            [k \in {<<fc.repo_id, fc.commit_sha>> : fc \in window_commits} |->
                LET fc == CHOOSE x \in window_commits : <<x.repo_id, x.commit_sha>> = k
                IN  PersonId(emps, ResolvedMemberKey(fc, emps, emps))]
        non_merge_commits ==
            {fc \in window_commits : ~IsMerge(stats, <<fc.repo_id, fc.commit_sha>>)}
    IN  [months |-> m, attribution |-> attribution,
         people |-> PerPerson(non_merge_commits, attribution)]

\* line_manager_dev_activity_data up to per_person
LineManagerDevActivityPeople(fact, emps, m) ==
    LET dev_employees == {e \in emps : e.role \in DEV_ROLES}
        window_commits == {fc \in fact : InWindow(fc, m)}
        attribution ==
            [k \in {<<fc.repo_id, fc.commit_sha>> : fc \in window_commits} |->
                LET fc == CHOOSE x \in window_commits : <<x.repo_id, x.commit_sha>> = k
                IN  PersonId(dev_employees, ResolvedMemberKey(fc, dev_employees, emps))]
    IN  [months |-> m, attribution |-> attribution,
         people |-> PerPerson(window_commits, attribution)]

\* employee_commits_all_repos_data: GROUP BY employee over gold.fact_commit_employee
EmployeeCommitsAllReposPeople(fact, emps, bridge, m) ==
    LET window_commits == {fc \in fact : InWindow(fc, m)}
        attribution ==
            [k \in {<<fc.repo_id, fc.commit_sha>> : fc \in window_commits} |->
                LET fc == CHOOSE x \in window_commits : <<x.repo_id, x.commit_sha>> = k
                IN  FactCommitEmployee(fc, emps, bridge)]
    IN  [months |-> m, attribution |-> attribution,
         people |-> PerPerson(window_commits, attribution)]

(***************************************************************************)
(* The commits and commit stats the lake may be given, and the roster rows *)
(* the reports are run against.                                            *)
(***************************************************************************)
\* a commit as the commits endpoint lists it; parents is the raw parents array, age_days
\* says how long before now committed_at lies.  A stored row has the repo of the call
\* that stored it, and copy numbers the rows of one (repo_id, sha): silver.commits has no
\* key, so it may hold several.
Commit(sha, username, email, age_days, additions, parents) ==
    [repo_id |-> <<"r", "1">>, sha |-> sha, author_username |-> username,
     author_email |-> email, age_days |-> age_days, additions |-> additions, deletions |-> 0,
     parents |-> parents, copy |-> 1]

Repo1 == <<"r", "1">>
Repo2 == <<"r", "2">>

CommitPool ==
    { Commit(<<"1">>, <<"a", "b">>, Mail_ab, 10, 3, << <<"7">> >>),
      Commit(<<"8">>, <<"a", "b">>, Mail_ab, 10, 5, << <<"1">>, <<"7">> >>),
      Commit(<<"0">>, <<"a", ".", "b">>, <<>>, 10, 2, <<>>),
      Commit(<<"1", "0">>, <<"A", ".", "B">>, Mail_ext, 45, 1, << <<"0">> >>),
      Commit(<<"1", "8">>, <<"A", ".", "B">>, <<"r", "@", "ext.com">>, 10, 1, << <<"1">> >>),
      Commit(<<"8", "0">>, <<"c", ".", "d">>, Mail_cd, 45, 8, << <<"0">> >>) }

CommitStatPool ==
    { [repo_id |-> Repo1, sha |-> <<"1">>, base_sha |-> <<"7">>, is_merge |-> FALSE,
       additions |-> 3, deletions |-> 1],
      [repo_id |-> Repo1, sha |-> <<"8">>, base_sha |-> <<"1">>, is_merge |-> TRUE,
       additions |-> 5, deletions |-> 0] }

ReportRosterPool ==
    { [MemberRow(E1, <<"Ann">>, Mail_ab) EXCEPT !.role = <<"JavaBackend">>],
      [MemberRow(E2, <<"Bob">>, Mail_cd) EXCEPT !.role = <<"Management">>] }

(***************************************************************************)
(* The operations of the lake, the build and the reports.                  *)
(***************************************************************************)
\* company_user if company_user else author_username
OrElse(value, otherwise) == IF value # <<>> THEN value ELSE otherwise

\* the row both commit upserts build from a fetched item: the repo of the call, and the
\* corporate user name in place of the author's when the e-mail is a corporate mailbox
CommitRowOf(repo, it) ==
    [it EXCEPT !.repo_id = repo,
               !.author_username = OrElse(CompanyUsernameFromEmail(it.author_email), @)]

CommitRows(repo, items) == [i \in 1..Len(items) |-> CommitRowOf(repo, items[i])]

\* INSERT INTO silver.commits of a list of rows: every row is stored
RECURSIVE InsertRows(_, _)
InsertRows(store, rows) ==
    IF rows = <<>> THEN store
    ELSE LET r == Head(rows)
             held == {s \in store : s.repo_id = r.repo_id /\ s.sha = r.sha}
         IN  InsertRows(store \cup {[r EXCEPT !.copy = Cardinality(held) + 1]}, Tail(rows))

IsStored(store, r) == \E s \in store : s.repo_id = r.repo_id /\ s.sha = r.sha

\* the tmp_new_commits rows the incremental INSERT ... LEFT JOIN ... WHERE s.sha IS NULL
\* selects: those whose (repo_id, sha) silver.commits does not hold
FreshRows(store, rows) ==
    SelectSeq(rows, LAMBDA r : ~IsStored(store, r))

Minimum(S) == CHOOSE x \in S : \A y \in S : x <= y

WatermarkKept(watermark, store, repo) == watermark

\* Lake.update_repo_watermark_from_silver: MAX(committed_at) of the repo's rows, nothing
\* when the repo has none.  last_committed_at is written as the age of that commit.
UpdateRepoWatermarkFromSilver(watermark, store, repo) ==
    LET ages == {s.age_days : s \in {x \in store : x.repo_id = repo}}
    IN  IF ages = {} THEN watermark ELSE Put(watermark, repo, Minimum(ages))

\* Lake.upsert_silver_commits: the repo's rows are replaced by the fetched items
UpsertSilverCommits(repo, items) ==
    /\ \E store \in {InsertRows({s \in silver_commits : s.repo_id # repo},
                                 CommitRows(repo, items))} :
        /\ silver_commits' = store
        /\ repo_watermark' = UpdateRepoWatermarkFromSilver(repo_watermark, store, repo)
    /\ reports' = EmptyMap
    /\ UNCHANGED <<silver_commit_stats, dim_member_base, fact_commit>>

\* Lake.upsert_silver_commits_incremental: items without a sha are dropped, and of the
\* rest the rows whose (repo_id, sha) is not stored yet are inserted
UpsertSilverCommitsIncremental(repo, items) ==
    /\ \E rows \in {SelectSeq(CommitRows(repo, items), LAMBDA r : r.sha # <<>>)} :
        IF rows = <<>>
        THEN UNCHANGED <<silver_commits, repo_watermark, reports>>
        ELSE \E store \in {InsertRows(silver_commits, FreshRows(silver_commits, rows))} :
                /\ silver_commits' = store
                /\ repo_watermark' = UpdateRepoWatermarkFromSilver(repo_watermark, store, repo)
                /\ reports' = EmptyMap
    /\ UNCHANGED <<silver_commit_stats, dim_member_base, fact_commit>>

StatsReplaced(stats, rows) ==
    [k \in {<<rows[i].repo_id, rows[i].sha>> : i \in 1..Len(rows)} |->
        LET r == rows[CHOOSE i \in 1..Len(rows) : <<rows[i].repo_id, rows[i].sha>> = k]
        IN  [base_sha |-> r.base_sha, is_merge |-> r.is_merge,
             additions |-> r.additions, deletions |-> r.deletions]]

\* INSERT ... ON CONFLICT (repo_id, sha) DO UPDATE, row after row
RECURSIVE UpsertedStats(_, _)
UpsertedStats(stats, rows) ==
    IF rows = <<>> THEN stats
    ELSE UpsertedStats(Put(stats, <<Head(rows).repo_id, Head(rows).sha>>,
                           [base_sha |-> Head(rows).base_sha,
                            is_merge |-> Head(rows).is_merge,
                            additions |-> Head(rows).additions,
                            deletions |-> Head(rows).deletions]),
                       Tail(rows))

\* Lake.upsert_silver_commit_stats
UpsertSilverCommitStats(rows) ==
    /\ IF rows = <<>>
       THEN UNCHANGED <<silver_commit_stats, reports>>
       ELSE /\ silver_commit_stats' = UpsertedStats(silver_commit_stats, rows)
            /\ reports' = EmptyMap
    /\ UNCHANGED <<silver_commits, dim_member_base, fact_commit>>

\* Warehouse.build: the two tables the reports read are rebuilt from the lake
Build ==
    /\ dim_member_base' = DimMemberBase(silver_commits)
    /\ fact_commit' = FactCommit(silver_commits, bridge_employee_identity, silver_commit_stats)
    /\ reports' = EmptyMap
    /\ UNCHANGED <<silver_commits, silver_commit_stats>>

\* the upserts and the build, called one at a time on single rows
Ingest ==
    /\ \/ \E c \in CommitPool :
            /\ Cardinality(silver_commits) < MaxCommits
            /\ UpsertSilverCommitsIncremental(c.repo_id, <<c>>)
       \/ \E row \in CommitStatPool :
            /\ \E s \in silver_commits : s.repo_id = row.repo_id /\ s.sha = row.sha
            /\ UpsertSilverCommitStats(<<row>>)
            /\ UNCHANGED repo_watermark
       \/ Build /\ UNCHANGED repo_watermark
    /\ UNCHANGED <<dimVars, projectVars, last, rows_given, months, scoreVars,
                   snapshotVars, ingest_run, enrich_run>>

ActiveEmployeeScore ==
    /\ reports' = Put(reports, "active_employee_score",
                      ActiveEmployeeScorePeople(
                          fact_commit, silver_commit_stats,
                          Employees(dim_member_enrichment, dim_member_base), months))
    /\ UNCHANGED lakeVars

LineManagerDevActivity ==
    /\ reports' = Put(reports, "line_manager_dev_activity",
                      LineManagerDevActivityPeople(
                          fact_commit, Employees(dim_member_enrichment, dim_member_base), months))
    /\ UNCHANGED lakeVars

EmployeeCommitsAllRepos ==
    /\ reports' = Put(reports, "employee_commits_all_repos",
                      EmployeeCommitsAllReposPeople(
                          fact_commit, Employees(dim_member_enrichment, dim_member_base),
                          bridge_employee_identity, months))
    /\ UNCHANGED lakeVars

\* the roster is imported for real, departments created on the way
LoadRoster ==
    \E member_rows \in SeqUpTo(ReportRosterPool, MaxRows - rows_given) :
        /\ member_rows # <<>>
        /\ ImportDimInfo(member_rows, <<>>, FALSE, TRUE)
        /\ rows_given' = rows_given + Len(member_rows)
        /\ reports' = EmptyMap
        /\ UNCHANGED <<projectVars, lakeVars, months, scoreVars, ingestVars>>

Report ==
    /\ \/ ActiveEmployeeScore
       \/ LineManagerDevActivity
       \/ EmployeeCommitsAllRepos
    /\ UNCHANGED <<dimVars, projectVars, last, rows_given, months, scoreVars, ingestVars>>


(***************************************************************************)
(* The ingestion commands (commands/ingest.py).                            *)
(*                                                                         *)
(* A call of the API returns a list of items or fails with an HTTP status  *)
(* or a network error (status None).  The bronze snapshot files a command  *)
(* writes are left out: no operation of the model reads them.  A command   *)
(* that visits the repos of the group does so one repo per step.           *)
(***************************************************************************)
Ok(items) == [ok |-> TRUE, status |-> "200", items |-> items]

Failed(status) == [ok |-> FALSE, status |-> status, items |-> <<>>]

FailureStatuses == {"401", "403", "404", "None"}

\* _safe_api_call: what a call that may return any of the lists can come back with
SafeApiCall(lists) == {Ok(l) : l \in lists} \cup {Failed(st) : st \in FailureStatuses}

ItemsOrEmptyWhenFailed(result) == [is_none |-> FALSE, items |-> result.items]

\* _items_or_none
ItemsOrNone(result) ==
    IF result.ok THEN [is_none |-> FALSE, items |-> result.items]
    ELSE [is_none |-> TRUE, items |-> <<>>]

ItemsOrNoneWhenCommits404(result, repo_exists_hint) ==
    [is_none |-> ~result.ok, items |-> result.items]

\* _items_or_empty_when_commits_404
ItemsOrEmptyWhenCommits404(result, repo_exists_hint) ==
    IF result.ok THEN ItemsOrNone(result)
    ELSE IF repo_exists_hint /\ result.status = "404" THEN [is_none |-> FALSE, items |-> <<>>]
    ELSE [is_none |-> TRUE, items |-> <<>>]

\* Lake.upsert_silver_top_contributors and Lake.upsert_silver_members: the rows of the
\* repo are deleted and the fetched items stored
ReplaceRepoRows(store, repo, items) ==
    {r \in store : r.repo_id # repo}
        \cup {[items[i] EXCEPT !.repo_id = repo] : i \in 1..Len(items)}

\* what the API may list
FetchedCommits ==
    LET c1 == Commit(<<"1">>, <<"a", "b">>, Mail_ab, 10, 3, << <<"7">> >>)
        c2 == Commit(<<"8", "0">>, <<"c", ".", "d">>, Mail_cd, 45, 8, << <<"0">> >>)
    IN  {<<>>, <<c2>>, <<c1, c1>>, <<c2, c1>>}

FetchedContributors ==
    {<<[repo_id |-> <<>>, username |-> <<"a", ".", "b">>, contributions |-> 3]>>}

FetchedMembers ==
    {<<[repo_id |-> <<>>, username |-> <<"a", ".", "b">>, email |-> Mail_ab]>>}

\* the group lists one repo; the other repo of the model is one the lake holds rows of
\* from an earlier time
FetchedRepos == {<<Repo1>>}

\* what the lake holds of the other repo
BystanderCommits == <<Commit(<<"8">>, <<"a", "b">>, Mail_ab, 20, 5, << <<"1">>, <<"7">> >>)>>

BystanderContributor == [repo_id |-> <<>>, username |-> <<"c", ".", "d">>, contributions |-> 1]

BystanderMember == [repo_id |-> <<>>, username |-> <<"c", ".", "d">>, email |-> Mail_cd]

NotCalled == [ok |-> FALSE, status |-> "", items |-> <<>>]

NoFetch == [top |-> NotCalled, members |-> NotCalled, commits |-> NotCalled]

\* no ingestion command under way: todo are the repos a command still has to visit,
\* fetched what it has fetched for the first of them and not yet stored
NoIngestRun == [command |-> "none", todo |-> <<>>, phase |-> "idle", fetched |-> NoFetch]

NoCommandRunning == ingest_run.todo = <<>> /\ enrich_run.phase # "running"

\* Lake.write_bronze("commits", {"repo": repo, "result": result}): one more snapshot file
\* of the repo, newer than those there are
WriteBronze(bronze, repo, result) == Put(bronze, repo, result)

\* the three fetches of ingest_repo and of the loop of ingest_all for the next repo
FetchAll(command) ==
    /\ ingest_run.command = command /\ ingest_run.phase = "idle" /\ ingest_run.todo # <<>>
    /\ \E top_r \in SafeApiCall(FetchedContributors), members_r \in SafeApiCall(FetchedMembers),
          commits_r \in SafeApiCall(FetchedCommits) :
        ingest_run' = [ingest_run EXCEPT !.phase = "fetched",
                                         !.fetched = [top |-> top_r, members |-> members_r,
                                                      commits |-> commits_r]]
    /\ UNCHANGED <<dimVars, projectVars, last, rows_given, reportVars, scoreVars,
                   snapshotVars, repo_watermark, enrich_run>>

\* what ingest_repo and the loop of ingest_all do with the three results: each dataset
\* that is known replaces the rows stored for the repo
ReplaceFetched(command) ==
    /\ ingest_run.command = command /\ ingest_run.phase = "fetched"
    /\ \E repo \in {Head(ingest_run.todo)}, top \in {ItemsOrNone(ingest_run.fetched.top)},
          members \in {ItemsOrNone(ingest_run.fetched.members)} :
        \E commits \in {ItemsOrEmptyWhenCommits404(ingest_run.fetched.commits,
                                                    ~top.is_none \/ ~members.is_none)} :
            /\ silver_top_contributors' =
                    IF top.is_none THEN silver_top_contributors
                    ELSE ReplaceRepoRows(silver_top_contributors, repo, top.items)
            /\ silver_members' =
                    IF members.is_none THEN silver_members
                    ELSE ReplaceRepoRows(silver_members, repo, members.items)
            /\ IF commits.is_none
               THEN UNCHANGED <<lakeVars, repo_watermark, reports>>
               ELSE UpsertSilverCommits(repo, commits.items)
    /\ bronze_commits' = WriteBronze(bronze_commits, Head(ingest_run.todo),
                                     ingest_run.fetched.commits)
    /\ ingest_run' = [ingest_run EXCEPT !.todo = Tail(@), !.phase = "idle", !.fetched = NoFetch]
    /\ UNCHANGED <<dimVars, projectVars, last, rows_given, months, scoreVars,
                   silver_repos, enrich_run>>

\* ingest repo
IngestRepo ==
    \/ /\ NoCommandRunning
       /\ \E top_r \in SafeApiCall(FetchedContributors), members_r \in SafeApiCall(FetchedMembers),
             commits_r \in SafeApiCall(FetchedCommits) :
            ingest_run' = [command |-> "repo", todo |-> <<Repo1>>, phase |-> "fetched",
                           fetched |-> [top |-> top_r, members |-> members_r,
                                        commits |-> commits_r]]
       /\ UNCHANGED <<dimVars, projectVars, last, rows_given, reportVars, scoreVars,
                      snapshotVars, repo_watermark, enrich_run>>
    \/ ReplaceFetched("repo")

\* Lake.upsert_silver_repos, at the start of ingest all and of ingest incremental
ListRepos(command) ==
    /\ NoCommandRunning
    /\ \E repos \in FetchedRepos :
        /\ silver_repos' = {repos[i] : i \in 1..Len(repos)}
        /\ ingest_run' = [NoIngestRun EXCEPT !.command = command, !.todo = repos]
    /\ UNCHANGED <<dimVars, projectVars, last, rows_given, reportVars, scoreVars,
                   silver_top_contributors, silver_members, bronze_commits, repo_watermark,
                   enrich_run>>

\* ingest all: the group's repos are listed, then visited one by one
IngestAll ==
    \/ ListRepos("all")
    \/ FetchAll("all")
    \/ ReplaceFetched("all")

\* ingest incremental: the group's repos are listed, then the commits of each are
\* fetched from its watermark on and the new ones inserted
IngestIncremental ==
    \/ ListRepos("incremental")
    \/ /\ ingest_run.command = "incremental" /\ ingest_run.phase = "idle"
       /\ ingest_run.todo # <<>>
       /\ \E commits_r \in SafeApiCall(FetchedCommits) :
            ingest_run' = [ingest_run EXCEPT !.phase = "fetched",
                                             !.fetched = [NoFetch EXCEPT !.commits = commits_r]]
       /\ UNCHANGED <<dimVars, projectVars, last, rows_given, reportVars, scoreVars,
                      snapshotVars, repo_watermark, enrich_run>>
    \/ /\ ingest_run.command = "incremental" /\ ingest_run.phase = "fetched"
       /\ \E commits \in {ItemsOrNone(ingest_run.fetched.commits)} :
            IF commits.is_none
            THEN UNCHANGED <<lakeVars, repo_watermark, reports>>
            ELSE UpsertSilverCommitsIncremental(Head(ingest_run.todo), commits.items)
       /\ bronze_commits' = WriteBronze(bronze_commits, Head(ingest_run.todo),
                                        ingest_run.fetched.commits)
       /\ ingest_run' = [ingest_run EXCEPT !.todo = Tail(@), !.phase = "idle",
                                           !.fetched = NoFetch]
       /\ UNCHANGED <<dimVars, projectVars, last, rows_given, months, scoreVars,
                      silver_repos, silver_top_contributors, silver_members, enrich_run>>

\* _extract_repo_and_items on a snapshot in the new format: the items of a result that
\* is ok, None otherwise
ExtractRepoAndItems(result) ==
    IF result.ok THEN [is_none |-> FALSE, items |-> result.items]
    ELSE [is_none |-> TRUE, items |-> <<>>]

\* the loop of rebuild_silver_commits over the selected files: a file without items is
\* passed over, and the rows of the others, those without a sha left out, are inserted
RECURSIVE RebuiltStore(_, _, _, _)
RebuiltStore(store, bronze, repos, truncate) ==
    IF repos = {} THEN store
    ELSE LET repo == CHOOSE r \in repos : TRUE
             got == ExtractRepoAndItems(bronze[repo])
             rows == SelectSeq(CommitRows(repo, got.items), LAMBDA r : r.sha # <<>>)
         IN  IF got.is_none \/ got.items = <<>>
             THEN RebuiltStore(store, bronze, repos \ {repo}, truncate)
             ELSE RebuiltStore(InsertRows(IF truncate THEN store
                                          ELSE {x \in store : x.repo_id # repo},
                                          rows),
                               bronze, repos \ {repo}, truncate)

\* the watermark of every repo that has rows in the store is refreshed
RECURSIVE RefreshedWatermarks(_, _, _)
RefreshedWatermarks(watermark, store, repos) ==
    IF repos = {} THEN watermark
    ELSE LET repo == CHOOSE r \in repos : TRUE
         IN  RefreshedWatermarks(UpdateRepoWatermarkFromSilver(watermark, store, repo),
                                 store, repos \ {repo})

\* ingest rebuild-silver-commits with latest_only, the newest snapshot of each repo; the
\* command stops at once when there is no snapshot file
RebuildSilverCommits ==
    /\ NoCommandRunning
    /\ bronze_commits # EmptyMap
    /\ \E truncate \in BOOLEAN :
        /\ \E store \in {RebuiltStore(IF truncate THEN {} ELSE silver_commits,
                                      bronze_commits, DOMAIN bronze_commits, truncate)} :
            /\ silver_commits' = store
            /\ repo_watermark' = RefreshedWatermarks(repo_watermark, store,
                                                     {x.repo_id : x \in store})
        /\ ingest_run' = [command |-> "rebuild", todo |-> <<>>, phase |-> "idle",
                          fetched |-> NoFetch, truncate |-> truncate]
    /\ reports' = EmptyMap
    /\ UNCHANGED <<dimVars, projectVars, last, rows_given, months, scoreVars, snapshotVars,
                   silver_commit_stats, dim_member_base, fact_commit, enrich_run>>

(***************************************************************************)
(* The diff-stat backfill (enrich_commit_stats, commands/ingest.py).       *)
(*                                                                         *)
(* The compare requests run in a thread pool and are collected in the      *)
(* order in which they complete; one step of the model is one completion.  *)
(***************************************************************************)
NoEnrichRun == [phase |-> "none"]

\* _extract_first_parent_sha
ExtractFirstParentSha(parents) ==
    IF parents = <<>> THEN [base_sha |-> <<>>, is_merge |-> FALSE]
    ELSE [base_sha |-> parents[1], is_merge |-> Len(parents) > 1]

\* the rows the candidate query may select before LIMIT: commits of the window, and
\* unless force those without a commit_stats row
Eligible(commits, stats, options) ==
    {c \in commits :
        /\ c.repo_id # <<>> /\ c.sha # <<>>
        /\ c.age_days <= 30 * options.months
        /\ (options.force \/ <<c.repo_id, c.sha>> \notin DOMAIN stats)}

\* ORDER BY committed_at DESC LIMIT n: the n newest rows, any of those that tie at the
\* cut
LimitChoices(rows, n) ==
    {S \in SUBSET rows :
        /\ Cardinality(S) = IF Cardinality(rows) < n THEN Cardinality(rows) ELSE n
        /\ \A chosen \in S, left \in rows \ S : chosen.age_days <= left.age_days}

\* the candidates list: the selected rows that have a first parent
CandidateOf(c) ==
    [repo_id |-> c.repo_id, sha |-> c.sha, copy |-> c.copy,
     base_sha |-> ExtractFirstParentSha(c.parents).base_sha,
     is_merge |-> ExtractFirstParentSha(c.parents).is_merge]

Candidates(selected) == {CandidateOf(c) : c \in {x \in selected : x.parents # <<>>}}

\* the files of the response of compare(base...head)
ComparedFiles(sha) ==
    IF sha = <<"1">> THEN <<[additions |-> 3, deletions |-> 1]>>
    ELSE IF sha = <<"8">> THEN <<[additions |-> 4, deletions |-> 0], [additions |-> 1, deletions |-> 2]>>
    ELSE <<>>

\* _sum_add_del_from_compare
RECURSIVE SumAddDelFromCompare(_)
SumAddDelFromCompare(files) ==
    IF files = <<>> THEN [additions |-> 0, deletions |-> 0]
    ELSE [additions |-> Head(files).additions + SumAddDelFromCompare(Tail(files)).additions,
          deletions |-> Head(files).deletions + SumAddDelFromCompare(Tail(files)).deletions]

\* _compute_one, when the request succeeds: the row appended to the batch
ComputeOne(cand) ==
    [repo_id |-> cand.repo_id, sha |-> cand.sha, base_sha |-> cand.base_sha,
     is_merge |-> cand.is_merge,
     additions |-> SumAddDelFromCompare(ComparedFiles(cand.sha)).additions,
     deletions |-> SumAddDelFromCompare(ComparedFiles(cand.sha)).deletions]

\* how a compare request can end: with a response, an HTTP error, another exception
CompareOutcomes == {"ok", "http", "other"}

ZeroRowOnFailure(batch, cand, outcome) ==
    IF outcome = "ok" THEN Append(batch, ComputeOne(cand))
    ELSE Append(batch, [ComputeOne(cand) EXCEPT !.additions = 0, !.deletions = 0])

\* the batch after a completion: the row of a request that succeeded is appended, a
\* request that raised adds nothing
BatchAfter(batch, cand, outcome) ==
    IF outcome = "ok" THEN Append(batch, ComputeOne(cand)) ELSE batch

AbortOnFailure(pending, cand, outcome) == IF outcome = "ok" THEN pending \ {cand} ELSE {}

\* the futures still to be collected once one has completed
PendingAfter(pending, cand, outcome) == pending \ {cand}

BatchKeptAtFlush(batch) == batch

\* the batch after the flush test of the loop: a batch that has reached the flush size
\* has been written and is started anew
BatchLeft(batch) == IF Len(batch) >= FlushSize THEN <<>> ELSE batch

\* ok, failed_http and failed_other after a completion
CountsAfter(counts, outcome) ==
    CASE outcome = "ok" -> [counts EXCEPT !.ok = @ + 1]
      [] outcome = "http" -> [counts EXCEPT !.failed_http = @ + 1]
      [] OTHER -> [counts EXCEPT !.failed_other = @ + 1]

EnrichOptions ==
    [months : {2}, force : BOOLEAN, max_commits : {1, 5}, dry_run : BOOLEAN]

CandidateKeys(cands) == {<<c.repo_id, c.sha>> : c \in cands}

\* the commits whose requests all failed in the run before, when that run had the same
\* options
FailedBefore(options) ==
    IF enrich_run.phase = "done" /\ enrich_run.options = options
    THEN CandidateKeys(enrich_run.failed) \ CandidateKeys(enrich_run.ok)
    ELSE {}

\* enrich_commit_stats up to the submission of the requests: the candidate query, the
\* candidates list, and the return of a dry run or of a run without candidates
EnrichBegin ==
    /\ NoCommandRunning
    /\ \E options \in EnrichOptions :
        \E selected \in LimitChoices(Eligible(silver_commits, silver_commit_stats, options),
                                      options.max_commits) :
            enrich_run' =
                [phase |-> IF options.dry_run \/ Candidates(selected) = {}
                           THEN "done" ELSE "running",
                 options |-> options,
                 candidates |-> Candidates(selected),
                 pending |-> IF options.dry_run THEN {} ELSE Candidates(selected),
                 batch |-> <<>>, ok |-> {}, failed |-> {},
                 counts |-> [ok |-> 0, failed_http |-> 0, failed_other |-> 0],
                 handed |-> 0,
                 stats_at_start |-> silver_commit_stats,
                 failed_before |-> FailedBefore(options)]
    /\ UNCHANGED <<dimVars, projectVars, last, rows_given, reportVars, scoreVars,
                   snapshotVars, repo_watermark, ingest_run>>

\* one turn of the as_completed loop: a request has completed, with a row for the batch
\* or with an exception that is counted; a batch that has reached the flush size is
\* written
EnrichComplete ==
    /\ enrich_run.phase = "running" /\ enrich_run.pending # {}
    /\ \E cand \in enrich_run.pending, outcome \in CompareOutcomes :
        \E batch \in {BatchAfter(enrich_run.batch, cand, outcome)} :
            /\ IF Len(batch) >= FlushSize
               THEN UpsertSilverCommitStats(batch)
               ELSE UNCHANGED <<lakeVars, reports>>
            /\ enrich_run' =
                    [enrich_run EXCEPT
                        !.pending = PendingAfter(@, cand, outcome),
                        !.ok = IF outcome = "ok" THEN @ \cup {cand} ELSE @,
                        !.failed = IF outcome = "ok" THEN @ ELSE @ \cup {cand},
                        !.counts = CountsAfter(@, outcome),
                        !.handed = IF Len(batch) >= FlushSize THEN @ + Len(batch) ELSE @,
                        !.batch = BatchLeft(batch)]
    /\ UNCHANGED <<dimVars, projectVars, last, rows_given, months, scoreVars,
                   snapshotVars, repo_watermark, ingest_run>>

\* after the loop: what is left of the batch is written
EnrichEnd ==
    /\ enrich_run.phase = "running" /\ enrich_run.pending = {}
    /\ UpsertSilverCommitStats(enrich_run.batch)
    /\ enrich_run' = [enrich_run EXCEPT !.phase = "done", !.batch = <<>>,
                                         !.handed = @ + Len(enrich_run.batch)]
    /\ UNCHANGED <<dimVars, projectVars, last, rows_given, months, scoreVars,
                   snapshotVars, repo_watermark, ingest_run>>



(***************************************************************************)
(* Scoring (warehouse.py).                                                 *)
(*                                                                         *)
(* A population row holds one person's aggregates over the window, as the  *)
(* per_person_* CTEs compute them from that person's non-merge commits.    *)
(* Scores are kept in hundredths of a point, ratios as integers on a scale *)
(* every commit count of the model divides, role weights in tenths; the    *)
(* arithmetic is exact.  NULL is written -1.  LN(1 + x) is increasing, so  *)
(* ORDER BY LN(1 + x) ranks as ORDER BY x does.  The reports are asked for *)
(* every row (top = None).                                                 *)
(***************************************************************************)
\* ROUND(n / d) for n >= 0, d > 0: half away from zero
RoundDiv(n, d) == (2 * n + d) \div (2 * d)

Least(a, b) == IF a < b THEN a ELSE b

\* x / NULLIF(y, 0)
Ratio(num, den) == IF den = 0 THEN -1 ELSE (num * 360) \div den

\* dim_admin.ROLE_CHANGE_WEIGHTS through _role_change_weight_case_sql, in tenths
RoleChangeWeight(role) ==
    CASE role = <<"Management">> -> 19
      [] role = <<"DataDev">> -> 18
      [] role = <<"JavaBackend">> -> 11
      [] OTHER -> 10

\* the messages of a person's commits: how many commits carry each message text
MsgBag(texts, counts) == [m \in {texts[i] : i \in 1..Len(texts)} |->
                            counts[CHOOSE i \in 1..Len(texts) : texts[i] = m]]

\* regexp_replace(t, '\\s+', ' ', 'g') as the statement reaches the database: the
\* pattern is a backslash followed by one or more letters s
RECURSIVE RegexpReplaceBackslashS(_)
RegexpReplaceBackslashS(t) ==
    IF t = <<>> THEN <<>>
    ELSE IF Head(t) = "\\" /\ Len(t) >= 2 /\ t[2] = "s"
         THEN LET rest == SubSeq(t, 2, Len(t))
                  run == CHOOSE n \in 1..Len(rest) :
                            /\ \A i \in 1..n : rest[i] = "s"
                            /\ (n = Len(rest) \/ rest[n + 1] # "s")
              IN  <<" ">> \o RegexpReplaceBackslashS(SubSeq(rest, run + 1, Len(rest)))
         ELSE <<Head(t)>> \o RegexpReplaceBackslashS(Tail(t))

\* message_norm of commit_enriched
MessageNorm(message) == RegexpReplaceBackslashS(Lower(Strip(message)))

\* per_person_msg: the inner query has one row per message_norm of the person that is
\* not empty, and the outer one counts these rows
PerPersonMsg(p) ==
    LET groups == {MessageNorm(m) : m \in {x \in DOMAIN p.messages : p.messages[x] > 0}}
                    \ {<<>>}
    IN  [msg_total |-> Cardinality(groups), msg_unique |-> Cardinality(groups)]

\* the commit times of a person, in seconds since the epoch: how many of the person's
\* counted commits carry each timestamp
TimeBag(times, counts) == [t \in {times[i] : i \in 1..Len(times)} |->
                             counts[CHOOSE i \in 1..Len(times) : times[i] = t]]

OnePerTime(times) == [t \in times |-> 1]

\* the instant at which the clocks of Asia/Shanghai (UTC+8 all year) show the given
\* hour and minute on the given day after 1 January 1970
LocalAt(day, hour, minute) == ((day * 24 + hour - 8) * 60 + minute) * 60

\* date_part('isodow', committed_at AT TIME ZONE 'Asia/Shanghai'); 1 January 1970 was a
\* Thursday
IsoDow(t) == (((t + 8 * 3600) \div 86400 + 3) % 7) + 1

\* date_part('hour', committed_at AT TIME ZONE 'Asia/Shanghai')
HourOf(t) == ((t + 8 * 3600) % 86400) \div 3600

\* is_after_hours of commit_enriched
IsAfterHours(t) ==
    IF IsoDow(t) \in 1..5 /\ HourOf(t) \in 9..18 THEN 0 ELSE 1

RECURSIVE SumCommits(_, _)
SumCommits(bag, times) ==
    IF times = {} THEN 0
    ELSE LET t == CHOOSE x \in times : TRUE
         IN  bag[t] + SumCommits(bag, times \ {t})

\* SUM(is_after_hours) of per_person_base
AfterHoursCommitCount(p) ==
    SumCommits(p.committed_at, {t \in DOMAIN p.committed_at : IsAfterHours(t) = 1})

Maximum(S) == CHOOSE x \in S : \A y \in S : y <= x

\* per_person_burst of suspicious_committers_data: the inner query is grouped by person_id,
\* b10m and b1h (GROUP BY 1,2,4), so cnt_10m and cnt_1h are the same COUNT(*) of one
\* group
PerPersonBurst(p) ==
    LET groups == {<<t \div 600, t \div 3600>> : t \in DOMAIN p.committed_at}
        cnt(g) == SumCommits(p.committed_at,
                             {t \in DOMAIN p.committed_at : <<t \div 600, t \div 3600>> = g})
    IN  [max_commits_10m |-> Maximum({cnt(g) : g \in groups}),
         max_commits_1h |-> Maximum({cnt(g) : g \in groups})]

\* COALESCE(NULLIF(TRIM(line_manager), ''), 'Unassigned')
ManagerOf(p) ==
    IF Strip(p.line_manager) = <<>> THEN <<"Unassigned">> ELSE Strip(p.line_manager)

\* the joined CTE of the person-level reports: one row per person with commits
PersonJoined(p) ==
    [person_id |-> p.person_id,
     full_name |-> p.full_name,
     role |-> p.role,
     line_manager |-> ManagerOf(p),
     commit_count |-> p.commit_count,
     repo_count |-> Cardinality(p.repos),
     total_changed_lines |-> p.total_changed_lines,
     total_weighted_changed_lines |-> p.total_changed_lines * RoleChangeWeight(p.role),
     median_weighted_changed_lines |-> p.median_changed_lines * RoleChangeWeight(p.role),
     changed_lines_per_commit |-> Ratio(p.total_changed_lines, p.commit_count),
     weighted_changed_lines_per_commit |->
        Ratio(p.total_changed_lines * RoleChangeWeight(p.role), p.commit_count),
     after_hours_ratio |-> Ratio(p.after_hours_commits, p.commit_count),
     p0_zero |-> Ratio(p.zero_commits, p.commit_count),
     p2_tiny |-> Ratio(p.tiny_commits, p.commit_count),
     p10_small |-> Ratio(p.small_commits, p.commit_count),
     p_balance_high |-> Ratio(p.balance_high_commits, p.commit_count),
     top1_repo_share |-> Ratio(p.top1_repo_commits, p.commit_count),
     top1_repo_is_core |-> p.top1_repo_is_core,
     max_commits_10m |-> p.max_commits_10m,
     max_commits_1h |-> p.max_commits_1h,
     message_unique_ratio |-> Ratio(p.msg_unique, p.msg_total),
     median_inter_commit_seconds |-> p.median_inter_commit_seconds]

\* the committers the populations of the scoring runs are drawn from: the sums of
\* per_person_base, and the messages and the times of their counted commits
CommitterPool ==
    { [person_id |-> <<"E1">>, full_name |-> <<"Ann">>, role |-> <<"JavaBackend">>,
       line_manager |-> <<"M1">>, department_level2_name |-> <<"R", "D">>,
       commit_count |-> 6, repos |-> {"r1"}, total_changed_lines |-> 60,
       median_changed_lines |-> 10, zero_commits |-> 0, tiny_commits |-> 0,
       small_commits |-> 6, balance_high_commits |-> 0,
       committed_at |-> OnePerTime({LocalAt(4, 9 + k, 0) : k \in 0..5}),
       top1_repo_commits |-> 6, top1_repo_is_core |-> 1, messages |-> MsgBag(<<<<"a">>, <<"b">>, <<"c">>, <<"d">>, <<"e">>, <<"f">>>>, <<1, 1, 1, 1, 1, 1>>),
       median_inter_commit_seconds |-> 3600],
      [person_id |-> <<"E3">>, full_name |-> <<"Ann">>, role |-> <<"JavaBackend">>,
       line_manager |-> <<"M1">>, department_level2_name |-> <<"R", "D">>,
       commit_count |-> 6, repos |-> {"r1"}, total_changed_lines |-> 60,
       median_changed_lines |-> 10, zero_commits |-> 0, tiny_commits |-> 0,
       small_commits |-> 6, balance_high_commits |-> 0,
       committed_at |-> OnePerTime({LocalAt(4, 9 + k, 0) : k \in 0..5}),
       top1_repo_commits |-> 6, top1_repo_is_core |-> 1, messages |-> MsgBag(<<<<"a">>, <<"b">>, <<"c">>, <<"d">>, <<"e">>, <<"f">>>>, <<1, 1, 1, 1, 1, 1>>),
       median_inter_commit_seconds |-> 3600],
      [person_id |-> <<"E2">>, full_name |-> <<"Bob">>, role |-> <<"DataDev">>,
       line_manager |-> <<"M2">>, department_level2_name |-> <<"R", "D">>,
       commit_count |-> 12, repos |-> {"r1", "r2"}, total_changed_lines |-> 1200,
       median_changed_lines |-> 100, zero_commits |-> 0, tiny_commits |-> 0,
       small_commits |-> 0, balance_high_commits |-> 6,
       committed_at |-> TimeBag(<<LocalAt(4, 11, 0), LocalAt(4, 11, 10), LocalAt(9, 11, 0), LocalAt(4, 20, 0)>>, <<3, 3, 3, 3>>),
       top1_repo_commits |-> 6, top1_repo_is_core |-> 0, messages |-> MsgBag(<<<<"a", "b">>, <<"A", "B", " ">>>>, <<6, 6>>),
       median_inter_commit_seconds |-> 600],
      [person_id |-> <<"E4">>, full_name |-> <<"Cid">>, role |-> <<"Management">>,
       line_manager |-> <<" ">>, department_level2_name |-> <<>>,
       commit_count |-> 24, repos |-> {"r1", "r2", "r3"}, total_changed_lines |-> 24,
       median_changed_lines |-> 1, zero_commits |-> 12, tiny_commits |-> 24,
       small_commits |-> 24, balance_high_commits |-> 0,
       committed_at |-> TimeBag(<<LocalAt(5, 9, 0), LocalAt(5, 14, 0)>>, <<12, 12>>),
       top1_repo_commits |-> 12, top1_repo_is_core |-> 0, messages |-> MsgBag(<<<<>>, <<" ">>>>, <<12, 12>>),
       median_inter_commit_seconds |-> 60],
      [person_id |-> <<"E5">>, full_name |-> <<"Dee">>, role |-> <<"JavaBackend">>,
       line_manager |-> <<"M2">>, department_level2_name |-> <<"a">>,
       commit_count |-> 18, repos |-> {"r1"}, total_changed_lines |-> 5400,
       median_changed_lines |-> 300, zero_commits |-> 0, tiny_commits |-> 0,
       small_commits |-> 0, balance_high_commits |-> 18,
       committed_at |-> TimeBag(<<LocalAt(6, 9, 0), LocalAt(6, 10, 0), LocalAt(6, 11, 0), LocalAt(6, 12, 0), LocalAt(6, 13, 0),
                                 LocalAt(6, 19, 0), LocalAt(6, 20, 0), LocalAt(6, 21, 0), LocalAt(6, 22, 0), LocalAt(6, 23, 0)>>,
                               <<2, 2, 2, 2, 1, 2, 2, 2, 2, 1>>),
       top1_repo_commits |-> 18, top1_repo_is_core |-> 1, messages |-> MsgBag(<<<<"a">>, <<"b">>, <<"c">>>>, <<6, 6, 6>>),
       median_inter_commit_seconds |-> 7200],
      [person_id |-> <<"E6">>, full_name |-> <<"Eve">>, role |-> <<"DataDev">>,
       line_manager |-> <<"M1">>, department_level2_name |-> <<"R", "D">>,
       commit_count |-> 30, repos |-> {"r1", "r2", "r3"}, total_changed_lines |-> 6000,
       median_changed_lines |-> 200, zero_commits |-> 0, tiny_commits |-> 0,
       small_commits |-> 0, balance_high_commits |-> 0,
       committed_at |-> OnePerTime({LocalAt(7, 9, 10 * k) : k \in 0..26} \cup {LocalAt(10, 10, 10 * k) : k \in 0..2}),
       top1_repo_commits |-> 10, top1_repo_is_core |-> 0, messages |-> MsgBag(<<<<>>, <<"x">>>>, <<10, 20>>),
       median_inter_commit_seconds |-> -1],
      [person_id |-> <<"E7">>, full_name |-> <<"Fay">>, role |-> <<"Other">>,
       line_manager |-> <<"M1">>, department_level2_name |-> <<"R", "D">>,
       commit_count |-> 20, repos |-> {"r1"}, total_changed_lines |-> 40,
       median_changed_lines |-> 2, zero_commits |-> 0, tiny_commits |-> 20,
       small_commits |-> 20, balance_high_commits |-> 0,
       committed_at |-> TimeBag(<<LocalAt(8, 18, 0), LocalAt(8, 18, 10), LocalAt(8, 18, 20), LocalAt(8, 18, 30)>>, <<5, 5, 5, 5>>),
       top1_repo_commits |-> 20, top1_repo_is_core |-> 0, messages |-> MsgBag(<<<<"f", "i", "x", " ", "a">>, <<"f", "i", "x", " ", " ", "a">>>>, <<15, 5>>),
       median_inter_commit_seconds |-> 120] }

\* what per_person_base, per_person_msg and per_person_burst make of the commits of a
\* committer
PerPersonAggregates(c) ==
    [after_hours_commits |-> AfterHoursCommitCount(c),
     msg_total |-> PerPersonMsg(c).msg_total,
     msg_unique |-> PerPersonMsg(c).msg_unique,
     max_commits_10m |-> PerPersonBurst(c).max_commits_10m,
     max_commits_1h |-> PerPersonBurst(c).max_commits_1h]

\* the per-person aggregates the scoring runs on
PersonPool == {c @@ PerPersonAggregates(c) : c \in CommitterPool}

Joined(population) == {PersonJoined(p) : p \in {x \in population : x.commit_count > 0}}

\* the rows whose value is at most that of r, r among them
RankAtOrBelow(rows, r, column) ==
    Cardinality({q \in rows : q[column] >= 0 /\ (r[column] < 0 \/ q[column] <= r[column])})

\* rank() - 1 of row r in ORDER BY <column> ASC: rows sorting strictly before r, NULLs last
RankBelow(rows, r, column) ==
    Cardinality({q \in rows : q[column] >= 0 /\ (r[column] < 0 \/ q[column] < r[column])})

\* the denominator of percent_rank(): N - 1, and percent_rank() = 0 when N = 1
RankSpan(rows) == IF Cardinality(rows) > 1 THEN Cardinality(rows) - 1 ELSE 1

\* the percentile with the two directions exchanged
PercentileScoreReversed(rows, r, column, inverse) ==
    RoundDiv(10000 * (IF inverse THEN RankBelow(rows, r, column)
                      ELSE RankSpan(rows) - RankBelow(rows, r, column)),
             RankSpan(rows))

\* ROUND(100 * percent_rank() OVER (ORDER BY <column>), 2), or of 100 * (1 - percent_rank())
PercentileScore(rows, r, column, inverse) ==
    RoundDiv(10000 * (IF inverse THEN RankSpan(rows) - RankBelow(rows, r, column)
                      ELSE RankBelow(rows, r, column)),
             RankSpan(rows))

\* suspicious_scored in active_employee_score_data: the 0.25/0.12/0.18/0.14/0.10/0.13/0.08
\* sum of the unrounded percentile terms, rounded once
SuspiciousScore(rows, r) ==
    RoundDiv(100 * ( 25 * RankBelow(rows, r, "p2_tiny")
                   + 12 * RankBelow(rows, r, "p0_zero")
                   + 18 * RankBelow(rows, r, "max_commits_10m")
                   + 14 * RankBelow(rows, r, "p_balance_high")
                   + 10 * (RankSpan(rows) - RankBelow(rows, r, "message_unique_ratio"))
                   + 13 * RankBelow(rows, r, "top1_repo_share")
                   + 8 * (RankSpan(rows) - RankBelow(rows, r, "changed_lines_per_commit"))),
             RankSpan(rows))

\* unsat_commit_min = max(1, int(months) * 6)
UnsatCommitMin(m) == IF m * 6 > 1 THEN m * 6 ELSE 1

\* a gate whose lower branch also takes commits = min_commits * dev_total
GateFactorInclusive(commits, dev_total, min_commits, full_at) ==
    IF commits <= min_commits * dev_total
    THEN [num |-> 5 * min_commits * dev_total + 3 * commits, den |-> 10 * min_commits * dev_total]
    ELSE [num |-> 8 * full_at * dev_total + 2 * Least(full_at * dev_total, commits),
          den |-> 10 * full_at * dev_total]

\* a gate whose lower branch rises by 0.5 instead of 0.3
GateFactorSteepStart(commits, dev_total, min_commits, full_at) ==
    IF commits < min_commits * dev_total
    THEN [num |-> 5 * min_commits * dev_total + 5 * commits, den |-> 10 * min_commits * dev_total]
    ELSE [num |-> 8 * full_at * dev_total + 2 * Least(full_at * dev_total, commits),
          den |-> 10 * full_at * dev_total]

\* the CASE of score_total, as a fraction; full_at is 20 for a person (dev_total = 1) and
\* 10 for a team, whose commits_per_dev is commits / dev_total
GateFactor(commits, dev_total, min_commits, full_at) ==
    IF commits < min_commits * dev_total
    THEN [num |-> 5 * min_commits * dev_total + 3 * commits, den |-> 10 * min_commits * dev_total]
    ELSE [num |-> 8 * full_at * dev_total + 2 * Least(full_at * dev_total, commits),
          den |-> 10 * full_at * dev_total]

\* x = num / den hundredths left uncapped
Least100Uncapped(num, den) == num

\* LEAST(100.0, x) for x = num / den hundredths
Least100(num, den) == Least(10000 * den, num)

\* a total that gates the bonus as well: ROUND(LEAST(100.0, (driver + bonus) * gate), 2)
ScoreTotalGateOnSum(driver, gate, bonus) ==
    RoundDiv(Least(10000 * gate.den * bonus.den,
                   (driver * bonus.den + bonus.num) * gate.num),
             gate.den * bonus.den)

\* ROUND(LEAST(100.0, driver * gate + bonus), 2)
ScoreTotal(driver, gate, bonus) ==
    RoundDiv(Least100(driver * gate.num * bonus.den + bonus.num * gate.den,
                      gate.den * bonus.den),
             gate.den * bonus.den)

\* the scored CTE and the final SELECT of active_employee_score_data
ActiveScored(population, m) ==
    LET joined == Joined(population)
        suspicious_scored ==
            {r @@ [suspicious_score |-> SuspiciousScore(joined, r)] : r \in joined}
        scores(r) ==
            [suspicious_score |-> r.suspicious_score,
             score_active |-> PercentileScore(suspicious_scored, r, "commit_count", FALSE),
             score_lines_total |->
                PercentileScore(suspicious_scored, r, "total_weighted_changed_lines", FALSE),
             score_lines_p50 |->
                PercentileScore(suspicious_scored, r, "median_weighted_changed_lines", FALSE),
             score_lines_per_commit |->
                PercentileScore(suspicious_scored, r, "weighted_changed_lines_per_commit", FALSE),
             score_repo_diversity |-> PercentileScore(suspicious_scored, r, "repo_count", FALSE),
             score_concentration |-> PercentileScore(suspicious_scored, r, "top1_repo_share", TRUE),
             score_message_quality |->
                PercentileScore(suspicious_scored, r, "message_unique_ratio", FALSE),
             score_after_hours |-> PercentileScore(suspicious_scored, r, "after_hours_ratio", FALSE),
             score_integrity |-> PercentileScore(suspicious_scored, r, "suspicious_score", TRUE)]
    IN  {[id |-> r.person_id,
          full_name |-> r.full_name,
          commit_count |-> r.commit_count,
          total_changed_lines |-> r.total_changed_lines,
          message_unique_ratio |-> r.message_unique_ratio,
          after_hours_ratio |-> r.after_hours_ratio,
          gate |-> GateFactor(r.commit_count, 1, UnsatCommitMin(m), 20),
          scores |-> scores(r),
          score_total |->
             ScoreTotal(scores(r).score_lines_total,
                        GateFactor(r.commit_count, 1, UnsatCommitMin(m), 20),
                        [num |-> Least(scores(r).score_repo_diversity, 7000), den |-> 20])] :
            r \in suspicious_scored}

\* the orders ORDER BY leaves open: every arrangement in which no row stands after a row it
\* sorts strictly before
Arrangements(rows) ==
    {s \in [1..Cardinality(rows) -> rows] : \A i, j \in 1..Cardinality(rows) : s[i] = s[j] => i = j}

\* ORDER BY score_total DESC, total_changed_lines DESC, commit_count DESC, full_name
SortsBeforeActive(a, b) ==
    \/ a.score_total > b.score_total
    \/ /\ a.score_total = b.score_total
       /\ \/ a.total_changed_lines > b.total_changed_lines
          \/ /\ a.total_changed_lines = b.total_changed_lines
             /\ \/ a.commit_count > b.commit_count
                \/ a.commit_count = b.commit_count /\ TextLess(a.full_name, b.full_name)

ActiveEmployeeScoreData(population, m) ==
    {s \in Arrangements(ActiveScored(population, m)) :
        \A i, j \in 1..Len(s) : i < j => ~SortsBeforeActive(s[j], s[i])}

\* the weighted sum of suspicious_committers_data in tenths of a weight unit: the
\* 0.18/0.06/0.10/0.12/0.06/0.14/0.10/0.10/0.14 terms, the single-repo term times 0.6 when
\* the top repo is a core repo; a NULL median_inter_commit_seconds is COALESCEd to a value
\* above every other, which is where NULLs sort anyway
SuspiciousSum(rows, r) ==
    10 * ( 18 * RankBelow(rows, r, "p2_tiny")
         + 6 * RankBelow(rows, r, "p10_small")
         + 10 * RankBelow(rows, r, "p0_zero")
         + 12 * RankBelow(rows, r, "max_commits_10m")
         + 6 * (RankSpan(rows) - RankBelow(rows, r, "median_inter_commit_seconds"))
         + 14 * RankBelow(rows, r, "p_balance_high")
         + 10 * (RankSpan(rows) - RankBelow(rows, r, "message_unique_ratio"))
         + 14 * (RankSpan(rows) - RankBelow(rows, r, "changed_lines_per_commit")))
    + 10 * RankBelow(rows, r, "top1_repo_share") * (IF r.top1_repo_is_core = 1 THEN 6 ELSE 10)

\* percent_rank() OVER (ORDER BY <column>) >= 0.80
RankAtLeast80(rows, r, column) == 5 * RankBelow(rows, r, column) >= 4 * RankSpan(rows)

SuspiciousFactorUnprotected(rows, r) == IF r.commit_count < 20 THEN 5 ELSE 10

\* the factor of the CASE of score_total, in tenths: 0.5 under 20 commits, 0.6 for a
\* protected high-output row, 1 otherwise
SuspiciousFactor(rows, r) ==
    IF r.commit_count < 20 THEN 5
    ELSE IF \/ RankAtLeast80(rows, r, "total_changed_lines")
            \/ RankAtLeast80(rows, r, "changed_lines_per_commit")
            \/ RankAtLeast80(rows, r, "repo_count")
            \/ RankAtLeast80(rows, r, "message_unique_ratio")
         THEN 6
    ELSE 10

\* the scored CTE and the final SELECT of suspicious_committers_data
SuspiciousScored(population) ==
    LET joined == Joined(population)
    IN  {[id |-> r.person_id,
          full_name |-> r.full_name,
          commit_count |-> r.commit_count,
          total_changed_lines |-> r.total_changed_lines,
          message_unique_ratio |-> r.message_unique_ratio,
          off_hours_ratio |-> r.after_hours_ratio,
          max_commits_10m |-> r.max_commits_10m,
          max_commits_1h |-> r.max_commits_1h,
          scores |->
             [score_tiny |-> PercentileScore(joined, r, "p2_tiny", FALSE),
              score_small |-> PercentileScore(joined, r, "p10_small", FALSE),
              score_zero |-> PercentileScore(joined, r, "p0_zero", FALSE),
              score_burst |-> PercentileScore(joined, r, "max_commits_10m", FALSE),
              score_inter_commit |->
                 PercentileScore(joined, r, "median_inter_commit_seconds", TRUE),
              score_balance |-> PercentileScore(joined, r, "p_balance_high", FALSE),
              score_message |-> PercentileScore(joined, r, "message_unique_ratio", TRUE),
              score_single_repo |->
                 RoundDiv(1000 * RankBelow(joined, r, "top1_repo_share")
                               * (IF r.top1_repo_is_core = 1 THEN 6 ELSE 10),
                          RankSpan(joined)),
              score_low_intensity |->
                 PercentileScore(joined, r, "changed_lines_per_commit", TRUE),
              score_total_raw |-> RoundDiv(10 * SuspiciousSum(joined, r), RankSpan(joined))],
          score_total |->
             RoundDiv(SuspiciousSum(joined, r) * SuspiciousFactor(joined, r), RankSpan(joined))] :
            r \in joined}

\* ORDER BY score_total DESC, commit_count DESC, total_changed_lines DESC, full_name
SortsBeforeSuspicious(a, b) ==
    \/ a.score_total > b.score_total
    \/ /\ a.score_total = b.score_total
       /\ \/ a.commit_count > b.commit_count
          \/ /\ a.commit_count = b.commit_count
             /\ \/ a.total_changed_lines > b.total_changed_lines
                \/ /\ a.total_changed_lines = b.total_changed_lines
                   /\ TextLess(a.full_name, b.full_name)

SuspiciousCommittersData(population) ==
    {s \in Arrangements(SuspiciousScored(population)) :
        \A i, j \in 1..Len(s) : i < j => ~SortsBeforeSuspicious(s[j], s[i])}

\* the values of a column in ascending order
RECURSIVE SortedColumn(_, _)
SortedColumn(rows, column) ==
    IF rows = {} THEN <<>>
    ELSE LET r == CHOOSE x \in rows : \A y \in rows : x[column] <= y[column]
         IN  <<r[column]>> \o SortedColumn(rows \ {r}, column)

\* twice quantile_cont(x, 0.5); NULL over no rows
Median2(values) ==
    IF values = <<>> THEN -1
    ELSE IF Len(values) % 2 = 1 THEN 2 * values[(Len(values) + 1) \div 2]
    ELSE values[Len(values) \div 2] + values[Len(values) \div 2 + 1]

\* dev_employees joined with per_person in line_manager_dev_activity_data
DevPeople(population) ==
    {[manager |-> ManagerOf(p),
      person_id |-> p.person_id,
      role |-> p.role,
      department_level2_name |-> p.department_level2_name,
      repos |-> p.repos,
      commit_count |-> p.commit_count,
      after_hours_commit_count |-> p.after_hours_commits,
      changed_lines_total_weighted |-> p.total_changed_lines * RoleChangeWeight(p.role)] :
        p \in {x \in population : x.role \in DEV_ROLES}}

\* the risk subquery of line_manager_dev_activity_data: the 0.22/0.12/0.18/0.14/0.10/0.10/
\* 0.06/0.08 sum over the developers with commits, times 0.5 under 20 commits and 0.6 for
\* a protected row; score_total is left unrounded, so it is kept as a fraction of points
LineManagerRisk(population) ==
    LET j == Joined({p \in population : p.role \in DEV_ROLES})
        sum(r) == 22 * RankBelow(j, r, "p2_tiny")
                + 12 * RankBelow(j, r, "p0_zero")
                + 18 * RankBelow(j, r, "max_commits_10m")
                + 14 * RankBelow(j, r, "p_balance_high")
                + 10 * (RankSpan(j) - RankBelow(j, r, "message_unique_ratio"))
                + 10 * RankBelow(j, r, "top1_repo_share")
                + 6 * RankBelow(j, r, "after_hours_ratio")
                + 8 * (RankSpan(j) - RankBelow(j, r, "changed_lines_per_commit"))
        factor(r) == IF r.commit_count < 20 THEN 5
                     ELSE IF \/ RankAtLeast80(j, r, "total_changed_lines")
                             \/ RankAtLeast80(j, r, "changed_lines_per_commit")
                          THEN 6
                     ELSE 10
    IN  {[manager |-> r.line_manager, person_id |-> r.person_id,
          num |-> sum(r) * factor(r), den |-> 10 * RankSpan(j)] : r \in j}

\* one row of the derived CTE, with the repo_count of manager_repo and the risk rollup
\* joined to it
ManagerDerived(devs, risk, g) ==
    LET team == {d \in devs : d.manager = g}
        active == {d \in team : d.commit_count > 0}
        scored == {x \in risk : x.manager = g}
        dev_total == Cardinality(team)
        commits_total == SumColumn(team, "commit_count")
        lines == SumColumn(team, "changed_lines_total_weighted")
        counts == SortedColumn(team, "commit_count")
    IN  [line_manager |-> g,
         dev_total |-> dev_total,
         commits_total |-> commits_total,
         active_pct |-> RoundDiv(10000 * Cardinality(active), dev_total),
         commits_active_p50 |-> Median2(SortedColumn(active, "commit_count")),
         top1_commit_share_pct |->
            IF commits_total = 0 THEN -1
            ELSE RoundDiv(10000 * counts[Len(counts)], commits_total),
         commits_per_dev |-> Ratio(commits_total, dev_total),
         after_hours_commit_share_pct |->
            IF commits_total = 0 THEN -1
            ELSE RoundDiv(10000 * SumColumn(team, "after_hours_commit_count"), commits_total),
         changed_lines_total_weighted |-> lines,
         changed_lines_per_dev_weighted |-> Ratio(lines, dev_total),
         changed_lines_active_p50_weighted |->
            IF active = {} THEN 0
            ELSE Median2(SortedColumn(active, "changed_lines_total_weighted")),
         dev_role_cnt |-> Cardinality({d.role : d \in team} \ {<<>>}),
         department_level2_cnt |-> Cardinality({d.department_level2_name : d \in team} \ {<<>>}),
         repo_count |-> Cardinality(UNION {d.repos : d \in team}),
         suspicious_dev_share |->
            Ratio(Cardinality({x \in scored : x.num >= 70 * x.den}), dev_total),
         suspicious_score_avg |->
            IF scored = {} THEN 0 ELSE Ratio(SumColumn(scored, "num"), Cardinality(scored)),
         dev_risk |-> [x \in {y.person_id : y \in scored} |->
                         LET y == CHOOSE z \in scored : z.person_id = x
                         IN  [num |-> y.num, den |-> y.den]]]

\* the scored CTE and the final SELECT of line_manager_dev_activity_data
LineManagerScored(population, m) ==
    LET devs == DevPeople(population)
        risk == LineManagerRisk(population)
        derived == {ManagerDerived(devs, risk, g) : g \in {d.manager : d \in devs}}
        scores(r) ==
            [score_active |-> PercentileScore(derived, r, "active_pct", FALSE),
             score_commits_p50 |-> PercentileScore(derived, r, "commits_active_p50", FALSE),
             score_commits_per_dev |-> PercentileScore(derived, r, "commits_per_dev", FALSE),
             score_concentration |-> PercentileScore(derived, r, "top1_commit_share_pct", TRUE),
             score_after_hours |->
                PercentileScore(derived, r, "after_hours_commit_share_pct", FALSE),
             score_lines_per_dev |->
                PercentileScore(derived, r, "changed_lines_per_dev_weighted", FALSE),
             score_lines_p50 |->
                PercentileScore(derived, r, "changed_lines_active_p50_weighted", FALSE),
             score_lines_total |->
                PercentileScore(derived, r, "changed_lines_total_weighted", FALSE),
             score_role_cover |-> PercentileScore(derived, r, "dev_role_cnt", FALSE),
             score_dept_focus |-> PercentileScore(derived, r, "department_level2_cnt", TRUE),
             score_integrity |->
                RoundDiv(10000 * ( (RankSpan(derived) - RankBelow(derived, r, "suspicious_dev_share"))
                                 + (RankSpan(derived) - RankBelow(derived, r, "suspicious_score_avg"))),
                         2 * RankSpan(derived))]
    IN  {[id |-> r.line_manager,
          dev_total |-> r.dev_total,
          commits_total |-> r.commits_total,
          gate |-> GateFactor(r.commits_total, r.dev_total, UnsatCommitMin(m), 10),
          dev_risk |-> r.dev_risk,
          scores |-> scores(r),
          score_total |->
             ScoreTotal(scores(r).score_lines_total,
                        GateFactor(r.commits_total, r.dev_total, UnsatCommitMin(m), 10),
                        [num |-> Least(300 * RankBelow(derived, r, "repo_count"),
                                       210 * RankSpan(derived)),
                         den |-> RankSpan(derived)])] :
            r \in derived}

\* ORDER BY score_total DESC, dev_total DESC, line_manager
SortsBeforeManager(a, b) ==
    \/ a.score_total > b.score_total
    \/ /\ a.score_total = b.score_total
       /\ \/ a.dev_total > b.dev_total
          \/ a.dev_total = b.dev_total /\ TextLess(a.id, b.id)

LineManagerDevActivityData(population, m) ==
    {s \in Arrangements(LineManagerScored(population, m)) :
        \A i, j \in 1..Len(s) : i < j => ~SortsBeforeManager(s[j], s[i])}

(***************************************************************************)
(* The populations the scoring is run on, and the scoring runs.            *)
(***************************************************************************)
Populations == {S \in SUBSET PersonPool : Cardinality(S) >= 2 /\ Cardinality(S) <= MaxPeople}

\* active_employee_score_data from the joined CTE on
ScoreActiveEmployees ==
    \E t \in ActiveEmployeeScoreData(people, months) :
        score_tables' = Put(score_tables, "active_employee_score", t)

\* suspicious_committers_data from the joined CTE on
ScoreSuspiciousCommitters ==
    \E t \in SuspiciousCommittersData(people) :
        score_tables' = Put(score_tables, "suspicious_committers", t)

\* line_manager_dev_activity_data from per_person on
ScoreLineManagers ==
    \E t \in LineManagerDevActivityData(people, months) :
        score_tables' = Put(score_tables, "line_manager_dev_activity", t)

Score ==
    /\ \/ ScoreActiveEmployees
       \/ ScoreSuspiciousCommitters
       \/ ScoreLineManagers
    /\ UNCHANGED <<dimVars, projectVars, last, rows_given, reportVars, people, ingestVars>>

InitImport ==
    /\ dim_member_enrichment \in {EmptyMap, [k \in {<<"dummy_", "1">>} |-> LegacyRow]}
    /\ bridge_employee_identity = EmptyMap
    /\ dim_department_level2 = EmptyMap
    /\ dim_department_level3 = EmptyMap
    /\ dim_repo_enrichment = EmptyMap
    /\ dim_project = EmptyMap
    /\ bridge_project_repo = EmptyMap
    /\ bridge_project_person_role = EmptyMap
    /\ last = [op |-> "none", issues |-> <<>>, dry_run |-> FALSE, queued |-> FALSE,
               binds_twice |-> FALSE, rebinds |-> FALSE]
    /\ rows_given = 0

InitLake ==
    /\ silver_commits = {}
    /\ silver_commit_stats = EmptyMap
    /\ dim_member_base = EmptyMap
    /\ fact_commit = {}
    /\ reports = EmptyMap
    /\ silver_repos = {}
    /\ silver_top_contributors = {}
    /\ silver_members = {}
    /\ repo_watermark = EmptyMap
    /\ bronze_commits = EmptyMap
    /\ ingest_run = NoIngestRun
    /\ enrich_run = NoEnrichRun

\* the imports on their own
Init == InitImport /\ InitLake /\ months = 1 /\ people = {} /\ score_tables = EmptyMap

Next == ImportDim \/ ImportProject

Spec == Init /\ [][Next]_vars

\* the lake, the build and the reports, over an imported roster
InitReport ==
    InitImport /\ InitLake /\ months \in {1, 2} /\ people = {} /\ score_tables = EmptyMap

NextReport == LoadRoster \/ Ingest \/ Report

SpecReport == InitReport /\ [][NextReport]_vars

\* the scoring of a population of people and of their teams
InitScore ==
    /\ InitImport /\ InitLake
    /\ months \in 1..MaxMonths
    /\ people \in Populations
    /\ score_tables = EmptyMap

NextScore == Score

\* the ingestion commands on an empty lake
InitIngest ==
    /\ InitImport /\ dim_member_enrichment = EmptyMap
    /\ months = 1 /\ people = {} /\ score_tables = EmptyMap
    /\ silver_commits = InsertRows({}, CommitRows(Repo2, BystanderCommits))
    /\ repo_watermark = UpdateRepoWatermarkFromSilver(EmptyMap, silver_commits, Repo2)
    /\ silver_top_contributors = ReplaceRepoRows({}, Repo2, <<BystanderContributor>>)
    /\ silver_members = ReplaceRepoRows({}, Repo2, <<BystanderMember>>)
    /\ bronze_commits = WriteBronze(EmptyMap, Repo2, Ok(BystanderCommits))
    /\ silver_repos = {Repo1, Repo2}
    /\ silver_commit_stats = EmptyMap /\ dim_member_base = EmptyMap /\ fact_commit = {}
    /\ reports = EmptyMap
    /\ ingest_run = NoIngestRun /\ enrich_run = NoEnrichRun

NextIngest == IngestRepo \/ IngestAll \/ IngestIncremental

SpecIngest == InitIngest /\ [][NextIngest]_vars

\* the ingestion commands and the rebuild of the commit store from the snapshots
NextRebuild == IngestRepo \/ IngestAll \/ IngestIncremental \/ RebuildSilverCommits

SpecRebuild == InitIngest /\ [][NextRebuild]_vars

\* the backfill on a lake that holds the commits of one listing
BackfillListings ==
    LET c1 == Commit(<<"1">>, <<"a", "b">>, Mail_ab, 10, 0, << <<"7">> >>)
        c8 == Commit(<<"8">>, <<"a", "b">>, Mail_ab, 10, 0, << <<"1">>, <<"7">> >>)
        c0 == Commit(<<"0">>, <<"a", ".", "b">>, <<>>, 10, 0, <<>>)
        c10 == Commit(<<"1", "0">>, <<"A", ".", "B">>, Mail_ext, 45, 0, << <<"0">> >>)
        c80 == Commit(<<"8", "0">>, <<"c", ".", "d">>, Mail_cd, 90, 0, << <<"0">> >>)
    IN  {<<c1, c8, c10, c80>>, <<c1, c1, c0, c10>>}

InitBackfill ==
    /\ InitImport /\ dim_member_enrichment = EmptyMap
    /\ months = 1 /\ people = {} /\ score_tables = EmptyMap
    /\ \E listing \in BackfillListings :
        /\ silver_commits = InsertRows({}, CommitRows(Repo1, listing))
        /\ repo_watermark = UpdateRepoWatermarkFromSilver(EmptyMap, silver_commits, Repo1)
    /\ silver_top_contributors = {} /\ silver_members = {} /\ bronze_commits = EmptyMap
    /\ silver_repos = {Repo1}
    /\ silver_commit_stats = EmptyMap /\ dim_member_base = EmptyMap /\ fact_commit = {}
    /\ reports = EmptyMap
    /\ ingest_run = NoIngestRun /\ enrich_run = NoEnrichRun

NextBackfill == EnrichBegin \/ EnrichComplete \/ EnrichEnd

SpecBackfill == InitBackfill /\ [][NextBackfill]_vars

SpecScore == InitScore /\ [][NextScore]_vars

(***************************************************************************)
(* Properties of the imports.                                              *)
(***************************************************************************)
allTables == <<dimVars, projectVars>>

HasIssue(field) == \E i \in 1..Len(last.issues) : last.issues[i].field = field

\* C2: a roster batch in which two rows bind the same normalized e-mail to two different
\* employee_ids returns at least one issue and writes nothing to any table.
C2_DuplicateBindingRejected ==
    [][(last'.op = "import_dim_info" /\ last'.binds_twice)
        => (Len(last'.issues) >= 1 /\ UNCHANGED allTables)]_vars

\* both rows got as far as the identity loop, and the second one was refused there
C2_Witness ==
    /\ last.op = "import_dim_info" /\ last.binds_twice /\ ~last.dry_run
    /\ \A i \in 1..Len(last.issues) : last.issues[i].field = "email_aliases"
    /\ last.issues # <<>>

\* C3: an import call (roster or project) that returns at least one issue leaves every
\* table as it was.
C3_IssuesBlockWrites ==
    [][Len(last'.issues) >= 1 => UNCHANGED allTables]_vars

\* rows had been queued for stage 2, the call was not a dry run, and an issue stopped it
C3_Witness ==
    /\ last.op = "import_dim_info" /\ ~last.dry_run /\ last.queued
    /\ last.issues # <<>>

\* C4: an identity that the bridge binds to an employee_id keeps that binding in every
\* step, and a batch that names it for another employee_id returns an issue.
C4_NoRebinding ==
    [][/\ \A k \in DOMAIN bridge_employee_identity :
            /\ k \in DOMAIN bridge_employee_identity'
            /\ bridge_employee_identity'[k] = bridge_employee_identity[k]
       /\ (last'.op = "import_dim_info" /\ last'.rebinds) => Len(last'.issues) >= 1]_vars

\* a batch tried to move a bound identity and was refused in the identity loop
C4_Witness ==
    /\ last.op = "import_dim_info" /\ last.rebinds /\ ~last.dry_run
    /\ HasIssue("email_aliases")
    /\ bridge_employee_identity # EmptyMap

\* C5: each employee_id is held by at most one row of dim_member_enrichment.
C5_OneRowPerEmployee ==
    \A k1, k2 \in DOMAIN dim_member_enrichment :
        Strip(dim_member_enrichment[k1].employee_id) = Strip(dim_member_enrichment[k2].employee_id)
            => k1 = k2


(***************************************************************************)
(* Properties of the reports.                                              *)
(***************************************************************************)
\* the rows of gold.fact_commit a report attributes to person p, merge commits left out
NonMergeRowsOf(name, p) ==
    {fc \in fact_commit :
        /\ <<fc.repo_id, fc.commit_sha>> \in DOMAIN reports[name].attribution
        /\ reports[name].attribution[<<fc.repo_id, fc.commit_sha>>] = p
        /\ ~IsMerge(silver_commit_stats, <<fc.repo_id, fc.commit_sha>>)}

\* C1: in every person-level aggregate a report returns, a person's commit_count and
\* total changed lines are those of the non-merge commits attributed to that person: a
\* commit whose stored CommitStat has is_merge = true adds to neither.
C1_MergeCommitsCountForNobody ==
    \A name \in DOMAIN reports :
        \A p \in DOMAIN reports[name].people :
            /\ reports[name].people[p].commit_count = Cardinality(NonMergeRowsOf(name, p))
            /\ reports[name].people[p].changed_lines = SumColumn(NonMergeRowsOf(name, p), "changed_lines")

\* the same statement for the active-employee score alone
C1_ActiveScoreLeavesMergesOut ==
    "active_employee_score" \in DOMAIN reports =>
        \A p \in DOMAIN reports["active_employee_score"].people :
            reports["active_employee_score"].people[p].commit_count
                = Cardinality(NonMergeRowsOf("active_employee_score", p))

\* C6: every report resolves a commit's author by the same chain, so a commit is
\* attributed to the same employee, or to no employee, by the active-employee score and
\* by the per-employee commit report.
C6_SameAttributionInEveryReport ==
    ({"active_employee_score", "employee_commits_all_repos"} \subseteq DOMAIN reports) =>
        \A k \in DOMAIN reports["active_employee_score"].attribution :
            reports["active_employee_score"].attribution[k]
                = reports["employee_commits_all_repos"].attribution[k]

\* weaker: no two reports name two different employees for one commit
C6_NeverTwoEmployees ==
    \A n1, n2 \in DOMAIN reports :
        \A k \in DOMAIN reports[n1].attribution :
            \/ reports[n1].attribution[k] = <<>>
            \/ reports[n2].attribution[k] = <<>>
            \/ reports[n1].attribution[k] = reports[n2].attribution[k]

(***************************************************************************)
(* Properties of the score tables.                                         *)
(***************************************************************************)
\* the rows of a score table, when it has been computed
RowsOf(name) ==
    IF name \in DOMAIN score_tables
    THEN {score_tables[name][i] : i \in 1..Len(score_tables[name])}
    ELSE {}

\* the joined row of the person a score row is about
JoinedRowOf(r) == CHOOSE x \in Joined(people) : x.person_id = r.id

\* 100 * (0.8 + 0.2 * min(1, commit_count / 20)), times 20
GateAtOrAbove(commit_count) == 1600 + 20 * Least(20, commit_count)

\* C7: a person whose commit_count is exactly months * 6 receives the gate factor
\* 0.8 + 0.2 * min(1, months * 6 / 20), which is 1.0 exactly when months >= 4
\* (months = 2 and commit_count = 12 gives 0.92).
C7_GateAtThreshold ==
    \A r \in RowsOf("active_employee_score") :
        r.commit_count = months * 6 =>
            /\ r.gate.num * 2000 = r.gate.den * GateAtOrAbove(months * 6)
            /\ (r.gate.num = r.gate.den) <=> (months >= 4)

C7_ThresholdBelowFullGate ==
    /\ months = 2
    /\ \E r \in RowsOf("active_employee_score") :
        /\ r.commit_count = 12
        /\ r.gate.num * 100 = r.gate.den * 92

\* C7 as stated: a person whose commit_count is exactly months * 6 receives gate factor 1.0
C7_GateIsOneAtThreshold ==
    \A r \in RowsOf("active_employee_score") :
        r.commit_count = months * 6 => r.gate.num = r.gate.den

\* the gate of the statement, as a fraction of 1
StatedGate(commit_count, min_commits) ==
    IF commit_count < min_commits
    THEN [num |-> 5 * min_commits + 3 * commit_count, den |-> 10 * min_commits]
    ELSE [num |-> GateAtOrAbove(commit_count), den |-> 2000]

\* min(100, driver * gate + 0.05 * min(diversity, 70)) in hundredths, as the fraction
\* num / den, for driver = driver_num / span and diversity = diversity_num / span
StatedTotal(driver_num, diversity_num, span, gate) ==
    [num |-> Least(10000 * span * gate.den * 20,
                   driver_num * gate.num * 20 + Least(diversity_num, 7000 * span) * gate.den),
     den |-> span * gate.den * 20]

\* C8: the person-level score_total is min(100, driver * gate + 0.05 * min(repo
\* diversity percentile, 70)) to the two decimals the table carries: driver is the
\* score_lines_total column, the percentile rank of the role-weighted total changed
\* lines, the gate is 0.5 + 0.3 * commit_count / (months * 6) below months * 6 commits
\* and 0.8 + 0.2 * min(1, commit_count / 20) from there on; the value differs from the
\* formula on unrounded percentile ranks by less than 0.02.
C8_PrimaryScoreFormula ==
    \A r \in RowsOf("active_employee_score") :
        LET x == JoinedRowOf(r)
            span == RankSpan(Joined(people))
            gate == StatedGate(r.commit_count, months * 6)
            rounded == StatedTotal(r.scores.score_lines_total,
                                   r.scores.score_repo_diversity, 1, gate)
            exact == StatedTotal(10000 * RankBelow(Joined(people), x, "total_weighted_changed_lines"),
                                 10000 * RankBelow(Joined(people), x, "repo_count"),
                                 span, gate)
        IN  /\ r.scores.score_lines_total
                = RoundDiv(10000 * RankBelow(Joined(people), x, "total_weighted_changed_lines"), span)
            /\ r.score_total = RoundDiv(rounded.num, rounded.den)
            /\ r.score_total * exact.den - exact.num < 2 * exact.den
            /\ exact.num - r.score_total * exact.den < 2 * exact.den

C8_BothGateBranchesScored ==
    /\ months = 2
    /\ \E r1, r2 \in RowsOf("active_employee_score") :
        /\ r1.commit_count < 12 /\ r1.score_total > 0
        /\ r2.commit_count >= 12 /\ r2.commit_count < 20
        /\ r2.score_total > 0 /\ r2.score_total < 10000

\* C9: every score of every table lies in [0, 100]: each percentile sub-score, the
\* suspicious score of each weight variant before and after dampening and protection,
\* and the person-level and team-level totals (scores in hundredths).
C9_ScoresWithinRange ==
    \A name \in DOMAIN score_tables :
        \A r \in RowsOf(name) :
            /\ r.score_total >= 0 /\ r.score_total <= 10000
            /\ \A column \in DOMAIN r.scores :
                r.scores[column] >= 0 /\ r.scores[column] <= 10000
            /\ "dev_risk" \in DOMAIN r =>
                \A x \in DOMAIN r.dev_risk :
                    r.dev_risk[x].num >= 0 /\ r.dev_risk[x].num <= 100 * r.dev_risk[x].den

C9_AllTablesScored ==
    /\ DOMAIN score_tables
        = {"active_employee_score", "suspicious_committers", "line_manager_dev_activity"}
    /\ Cardinality(RowsOf("line_manager_dev_activity")) >= 2
    /\ \E r \in RowsOf("active_employee_score") : r.score_total = 10000
    /\ \E r \in RowsOf("suspicious_committers") :
        r.score_total > 0 /\ r.score_total < r.scores.score_total_raw
    /\ \E r \in RowsOf("line_manager_dev_activity") :
        \E x \in DOMAIN r.dev_risk : r.dev_risk[x].num > 0

\* C10: running a report again on the same stored data returns the table it returned
\* before: the same rows in the same order.
C10_RerunGivesSameTable ==
    [][\A name \in DOMAIN score_tables : score_tables'[name] = score_tables[name]]_vars

\* the rows of the active-employee table with fewer commits than r
FewerCommits(r) == {q \in RowsOf("active_employee_score") : q.commit_count < r.commit_count}

AscendingDimensions ==
    {<<"commit_count", "score_active">>,
     <<"total_weighted_changed_lines", "score_lines_total">>,
     <<"median_weighted_changed_lines", "score_lines_p50">>,
     <<"weighted_changed_lines_per_commit", "score_lines_per_commit">>,
     <<"repo_count", "score_repo_diversity">>,
     <<"message_unique_ratio", "score_message_quality">>,
     <<"after_hours_ratio", "score_after_hours">>}

\* C12: on every dimension ranked ascending, a person whose raw metric is strictly
\* greater than another's has a percentile rank greater than or equal to the other's.
C12_PercentileMonotone ==
    \A a, b \in RowsOf("active_employee_score") :
        \A d \in AscendingDimensions :
            (JoinedRowOf(b)[d[1]] >= 0 /\ JoinedRowOf(a)[d[1]] > JoinedRowOf(b)[d[1]])
                => a.scores[d[2]] >= b.scores[d[2]]

C12_StrictlyGreaterMetric ==
    \E a, b \in RowsOf("active_employee_score") :
        /\ JoinedRowOf(a).total_weighted_changed_lines > JoinedRowOf(b).total_weighted_changed_lines
        /\ a.scores.score_lines_total > b.scores.score_lines_total
        /\ JoinedRowOf(a).repo_count > JoinedRowOf(b).repo_count
        /\ a.scores.score_repo_diversity >= b.scores.score_repo_diversity

(***************************************************************************)
(* Properties of the ingestion commands.                                   *)
(***************************************************************************)
RepoRows(store, repo) == {r \in store : r.repo_id = repo}

\* the call was made and failed with 401, 403, 404 or a network error
FetchFailed(result) == result.status \in FailureStatuses

\* a command holds fetched results it is about to store
StoreStep == ingest_run.phase = "fetched"

FullRun == ingest_run.command \in {"repo", "all"}

\* the commits call came back 404 in a full run whose members or contributors call
\* succeeded
EmptyRepoCase ==
    /\ FullRun /\ ingest_run.fetched.commits.status = "404"
    /\ (ingest_run.fetched.top.ok \/ ingest_run.fetched.members.ok)

C14_Commits404MeansEmptyRepo ==
    [][StoreStep /\ ingest_run.fetched.commits.status = "404"
          /\ (ingest_run.fetched.top.ok \/ ingest_run.fetched.members.ok)
        => RepoRows(silver_commits', Head(ingest_run.todo)) = {}]_vars

\* a 404 on commits next to a successful members call, for a repo that has commits stored
C14_Commits404WithMembers ==
    /\ StoreStep /\ ingest_run.fetched.commits.status = "404"
    /\ ingest_run.fetched.members.ok /\ ~ingest_run.fetched.top.ok
    /\ RepoRows(silver_commits, Repo1) # {}

\* the commits a store step writes: known and not empty
WritesCommits ==
    /\ StoreStep /\ ingest_run.fetched.commits.ok
    /\ ingest_run.fetched.commits.items # <<>>

NewestAge(store, repo) == Minimum({s.age_days : s \in RepoRows(store, repo)})

C16_OneRowPerSha ==
    \A r \in silver_commits, s \in silver_commits :
        r.repo_id = s.repo_id /\ r.sha = s.sha => r = s

(***************************************************************************)
(* Properties of the diff-stat backfill.                                   *)
(***************************************************************************)
\* a backfill run that made requests
RequestsMade == enrich_run.phase \in {"running", "done"} /\ ~enrich_run.options.dry_run

RunEnded == enrich_run.phase = "done" /\ ~enrich_run.options.dry_run

\* the commit_stats row of a batch row
StatOf(row) ==
    [base_sha |-> row.base_sha, is_merge |-> row.is_merge,
     additions |-> row.additions, deletions |-> row.deletions]

\* C17: a failed compare request does not end the run: every candidate is pending,
\* failed or succeeded while the run lasts, none is pending when it has ended, and
\* every candidate whose request succeeded then has its row in the commit_stats store
C17_FailureDoesNotAbortRun ==
    /\ (RequestsMade
            => enrich_run.pending \cup enrich_run.ok \cup enrich_run.failed
                    = enrich_run.candidates)
    /\ (RunEnded
            => /\ enrich_run.pending = {}
               /\ \A cand \in enrich_run.ok :
                    /\ <<cand.repo_id, cand.sha>> \in DOMAIN silver_commit_stats
                    /\ silver_commit_stats[<<cand.repo_id, cand.sha>>]
                            = StatOf(ComputeOne(cand)))

\* a run has ended in which the first request to complete failed and later ones
\* succeeded
C17_RunWithFailureAndSuccesses ==
    /\ RunEnded
    /\ enrich_run.failed # {}
    /\ Cardinality(enrich_run.ok) >= 2

\* the keys of the commits of the run none of whose requests succeeded
FailedKeys == CandidateKeys(enrich_run.failed) \ CandidateKeys(enrich_run.ok)

\* the candidate query of the run had no choice to make at its limit
SelectionDetermined ==
    Cardinality(LimitChoices(Eligible(silver_commits, enrich_run.stats_at_start,
                                      enrich_run.options),
                             enrich_run.options.max_commits)) = 1

StatsAfter(start, ok) ==
    [k \in (DOMAIN start) \cup CandidateKeys(ok) |->
        IF k \in CandidateKeys(ok)
        THEN StatOf(ComputeOne(CHOOSE cand \in ok : <<cand.repo_id, cand.sha>> = k))
        ELSE start[k]]

\* C19: when a run has ended, the commit_stats store is determined by the store the
\* run found and the set of requests that succeeded, whatever the order in which the
\* requests completed
C19_StoreIndependentOfCompletionOrder ==
    RunEnded => silver_commit_stats = StatsAfter(enrich_run.stats_at_start, enrich_run.ok)

\* a run has ended whose three requests all succeeded, in some order, over a store
\* that held rows
C19_SeveralCompletionsEnded ==
    /\ RunEnded
    /\ Cardinality(enrich_run.ok) = 3
    /\ enrich_run.stats_at_start # EmptyMap

\* C20: for every commit of the fact table, the is_merge flag the aggregation uses is
\* true exactly when the stored commit has more than one parent
C20_IsMergeFromParents ==
    \A fc \in fact_commit : \A c \in silver_commits :
        c.repo_id = fc.repo_id /\ c.sha = fc.commit_sha
            => (IsMerge(silver_commit_stats, <<fc.repo_id, fc.commit_sha>>)
                    <=> Len(c.parents) > 1)

\* the suspicious score of suspicious_committers_data is half of the weighted sum
\* under 20 commits, and the sum or 0.6 of it from 20 commits on
C21_SuspiciousCommittersDampened ==
    \A r \in RowsOf("suspicious_committers") :
        LET x == JoinedRowOf(r)
            sum == SuspiciousSum(Joined(people), x)
            span == RankSpan(Joined(people))
        IN  IF r.commit_count < 20
            THEN r.score_total = RoundDiv(sum * 5, span)
            ELSE r.score_total \in {RoundDiv(sum * 10, span), RoundDiv(sum * 6, span)}

\* C21: under 20 commits the suspicious score reported for a person is half of the
\* weighted composite, and from 20 commits on it is not halved, in the suspicious
\* committers table and in the active-employee table alike
C21_LowSampleHalvedInBothContexts ==
    /\ C21_SuspiciousCommittersDampened
    /\ \A r \in RowsOf("active_employee_score") :
        r.commit_count < 20
            => 2 * r.scores.suspicious_score
                    \in {SuspiciousScore(Joined(people), JoinedRowOf(r)) + d : d \in {-1, 0, 1}}

\* one of the four protecting ranks of the person is at or above the 80th percentile
HighOutput(x) ==
    \E column \in {"total_changed_lines", "changed_lines_per_commit", "repo_count",
                   "message_unique_ratio"} :
        RankAtLeast80(Joined(people), x, column)

\* C22: from 20 commits on, a person one of whose total-changed-lines, intensity,
\* repo-diversity and message-quality ranks is at or above the 80th percentile has the
\* suspicious composite multiplied by 0.6, and a person none of whose ranks is has it
\* unchanged; under 20 commits the composite is halved and the 0.6 is not applied
C22_HighOutputProtectionFrom20Commits ==
    \A r \in RowsOf("suspicious_committers") :
        LET x == JoinedRowOf(r)
            sum == SuspiciousSum(Joined(people), x)
            span == RankSpan(Joined(people))
        IN  r.score_total
                = RoundDiv(sum * (IF r.commit_count < 20 THEN 5
                                  ELSE IF HighOutput(x) THEN 6 ELSE 10),
                           span)

\* a person with 20 commits or more and a protecting rank has a positive composite
\* reported at 0.6 of it, next to a person under 20 commits with a protecting rank
C22_ProtectedAndDampenedPeople ==
    \E r, q \in RowsOf("suspicious_committers") :
        /\ r.commit_count >= 20 /\ HighOutput(JoinedRowOf(r))
        /\ r.score_total > 0 /\ r.score_total < r.scores.score_total_raw
        /\ q.commit_count < 20 /\ HighOutput(JoinedRowOf(q))
        /\ q.score_total > 0

\* C22 as stated: a protecting rank at or above the 80th percentile multiplies the
\* composite by 0.6 whatever the commit_count
C22_HighOutputProtectionAlways ==
    \A r \in RowsOf("suspicious_committers") :
        HighOutput(JoinedRowOf(r))
            => r.score_total
                    = RoundDiv(SuspiciousSum(Joined(people), JoinedRowOf(r)) * 6,
                               RankSpan(Joined(people)))

\* a person with exactly 20 commits and no protecting rank has the composite reported
\* as it is
C21_UndampenedAt20Commits ==
    \E r \in RowsOf("suspicious_committers") :
        /\ r.commit_count = 20 /\ ~HighOutput(JoinedRowOf(r))
        /\ r.score_total > 0 /\ r.score_total = r.scores.score_total_raw

\* the population row of the person a score row is about
PersonOf(r) == CHOOSE p \in people : p.person_id = r.id

\* lower case, trimmed, runs of spaces collapsed to one space
RECURSIVE CollapseSpaces(_)
CollapseSpaces(t) ==
    IF Len(t) < 2 THEN t
    ELSE IF t[1] = " " /\ t[2] = " " THEN CollapseSpaces(Tail(t))
    ELSE <<Head(t)>> \o CollapseSpaces(Tail(t))

StatedNorm(message) == CollapseSpaces(Lower(Strip(message)))

RECURSIVE SumOver(_, _)
SumOver(f, S) ==
    IF S = {} THEN 0
    ELSE LET x == CHOOSE y \in S : TRUE IN f[x] + SumOver(f, S \ {x})

\* distinct normalized non-empty messages over commits with a non-empty message
StatedMessageUniqueRatio(p) ==
    Ratio(Cardinality({StatedNorm(m) : m \in DOMAIN p.messages} \ {<<>>}),
          SumOver(p.messages, {m \in DOMAIN p.messages : StatedNorm(m) # <<>>}))

\* C23: the message_unique_ratio of every person is the number of distinct normalized
\* non-empty messages divided by the number of the person's counted commits with a
\* non-empty message
C23_MessageUniqueRatio ==
    \A name \in {"active_employee_score", "suspicious_committers"} :
        \A r \in RowsOf(name) :
            r.message_unique_ratio = StatedMessageUniqueRatio(PersonOf(r))


\* the largest number of the person's commits in one window of the given length, the
\* windows being the buckets floor(epoch / seconds)
StatedMaxCommits(p, seconds) ==
    Maximum({SumOver(p.committed_at, {t \in DOMAIN p.committed_at : t \div seconds = b}) :
                b \in {t \div seconds : t \in DOMAIN p.committed_at}})

\* the 10-minute maximum of the suspicious committers table is the largest number of
\* the person's commits in one 10-minute bucket
C24_MaxCommits10m ==
    \A r \in RowsOf("suspicious_committers") :
        r.max_commits_10m = StatedMaxCommits(PersonOf(r), 600)

\* C24: max_commits_1h is the largest number of the person's counted commits in one
\* 1-hour bucket floor(epoch / 3600), whatever their 10-minute buckets are
C24_MaxCommits1h ==
    \A r \in RowsOf("suspicious_committers") :
        r.max_commits_1h = StatedMaxCommits(PersonOf(r), 3600)


\* seconds since midnight on the clocks of Asia/Shanghai
SecondOfDay(t) == (t + 8 * 3600) % 86400

\* outside Monday to Friday 09:00-18:00, the two ends of the interval being inside
OutsideBusinessHours(t) ==
    ~(IsoDow(t) \in 1..5 /\ SecondOfDay(t) >= 9 * 3600 /\ SecondOfDay(t) <= 18 * 3600)

\* outside Monday to Friday 09:00-18:59
OutsideHours9To18(t) ==
    ~(IsoDow(t) \in 1..5 /\ SecondOfDay(t) >= 9 * 3600 /\ SecondOfDay(t) < 19 * 3600)

\* C25: a commit is after-hours exactly when its time in the business timezone is
\* outside Monday to Friday 09:00-18:00, and after_hours_ratio is the fraction of the
\* person's counted commits that are after-hours
C25_AfterHoursRatio ==
    \A r \in RowsOf("active_employee_score") :
        r.after_hours_ratio =
            LET p == PersonOf(r)
            IN  Ratio(SumOver(p.committed_at,
                              {t \in DOMAIN p.committed_at : OutsideBusinessHours(t)}),
                      p.commit_count)

\* the ratio is the fraction of the commits made outside Monday to Friday 09:00-18:59
C25_AfterHoursRatioThrough1859 ==
    \A r \in RowsOf("active_employee_score") :
        r.after_hours_ratio =
            LET p == PersonOf(r)
            IN  Ratio(SumOver(p.committed_at,
                              {t \in DOMAIN p.committed_at : OutsideHours9To18(t)}),
                      p.commit_count)


\* gold.dim_member_base and gold.fact_commit are the tables a build makes of the lake
\* as it is now
GoldIsCurrent ==
    /\ dim_member_base = DimMemberBase(silver_commits)
    /\ fact_commit = FactCommit(silver_commits, bridge_employee_identity, silver_commit_stats)

NonCorporate(c) ==
    /\ c.sha # <<>>
    /\ c.author_username # <<>> \/ c.author_email # <<>>
    /\ ~MatchesCompanyPattern(Lower(c.author_email))

\* the lower-cased username if there is one, otherwise the lower-cased email
UsernameThenEmail(c) ==
    IF c.author_username # <<>> THEN Lower(c.author_username) ELSE Lower(c.author_email)

\* the member dimension has a row under the lower-cased username, or the lower-cased
\* email when there is no username, of every stored author without a corporate email
C26_DimensionKeyOfNonCorporate ==
    GoldIsCurrent =>
        \A c \in silver_commits : NonCorporate(c) => UsernameThenEmail(c) \in DOMAIN dim_member_base

\* C26: for an identity without a corporate email the member_key is the lower-cased
\* username if non-empty, otherwise the lower-cased email, and the member dimension and
\* the commit fact derive the same member_key from the same identity
C26_SameKeyInDimensionAndFact ==
    GoldIsCurrent =>
        \A c \in silver_commits :
            NonCorporate(c) =>
                /\ UsernameThenEmail(c) \in DOMAIN dim_member_base
                /\ \A fc \in fact_commit :
                      fc.repo_id = c.repo_id /\ fc.commit_sha = c.sha
                          => fc.member_key = UsernameThenEmail(c)


(***************************************************************************)
(* Properties of the watermark and of the rebuild from the snapshots.      *)
(***************************************************************************)
\* a command has completed and none has begun since
CommandCompleted ==
    /\ ingest_run.command # "none" /\ ingest_run.todo = <<>> /\ ingest_run.phase = "idle"

\* a watermark is never earlier than the newest commit stored for its repo
C27_WatermarkNotBeforeNewestStored ==
    CommandCompleted =>
        \A repo \in DOMAIN repo_watermark :
            \A s \in RepoRows(silver_commits, repo) : repo_watermark[repo] <= s.age_days

\* C27: when an ingestion command (full replace, incremental, rebuild) has completed,
\* the watermark of every repo is the committed_at of the newest commit stored for that
\* repo, so it is never later than the newest stored commit
C27_WatermarkIsNewestStored ==
    CommandCompleted =>
        \A repo \in DOMAIN repo_watermark :
            /\ RepoRows(silver_commits, repo) # {}
            /\ repo_watermark[repo] = NewestAge(silver_commits, repo)


CommitKeys(store) == {<<s.repo_id, s.sha>> : s \in store}

\* a step of rebuild-silver-commits with its default options, every snapshot it reads
\* being that of a fetch that succeeded
DefaultRebuildStep ==
    /\ ingest_run'.command = "rebuild" /\ ingest_run'.truncate
    /\ \A repo \in DOMAIN bronze_commits : bronze_commits[repo].ok

\* after a default rebuild the store holds the commits of the newest snapshot of every
\* repo, and those only
C28_RebuildHoldsNewestSnapshots ==
    [][DefaultRebuildStep =>
        CommitKeys(silver_commits') =
            UNION {{<<repo, bronze_commits[repo].items[i].sha>> :
                        i \in 1..Len(bronze_commits[repo].items)} :
                    repo \in DOMAIN bronze_commits}]_vars

\* C28: a rebuild with the default options (newest snapshot of each repo, truncate
\* first) after successful full and incremental runs leaves every (repo_id, sha) in the
\* store that was there before
C28_RebuildLosesNoCommit ==
    [][DefaultRebuildStep => CommitKeys(silver_commits) \subseteq CommitKeys(silver_commits')]_vars


(***************************************************************************)
(* Properties of the counters of the backfill.                             *)
(***************************************************************************)
\* C29: in every backfill run, in whatever order the requests complete, every candidate
\* collected so far is counted in exactly one of ok, failed_http and failed_other, their
\* sum being the number of candidates once the run has ended, and the rows handed to
\* the store over all flushes are as many as ok: with those still in the batch while
\* the run lasts, and exactly ok when it has ended
C29_EveryCandidateCountedOnce ==
    RequestsMade =>
        /\ enrich_run.ok \cap enrich_run.failed = {}
        /\ enrich_run.ok \cup enrich_run.failed \cup enrich_run.pending = enrich_run.candidates
        /\ enrich_run.pending \cap (enrich_run.ok \cup enrich_run.failed) = {}
        /\ enrich_run.counts.ok = Cardinality(enrich_run.ok)
        /\ enrich_run.counts.failed_http + enrich_run.counts.failed_other
              = Cardinality(enrich_run.failed)
        /\ enrich_run.handed + Len(enrich_run.batch) = enrich_run.counts.ok
        /\ Len(enrich_run.batch) < FlushSize
        /\ (RunEnded =>
              /\ enrich_run.counts.ok + enrich_run.counts.failed_http
                    + enrich_run.counts.failed_other = Cardinality(enrich_run.candidates)
              /\ enrich_run.handed = enrich_run.counts.ok)

\* a run has ended in which a batch was written at the flush size and a request failed
C29_RunWithFlushAtBoundaryAndFailure ==
    /\ RunEnded
    /\ enrich_run.counts.ok = FlushSize
    /\ enrich_run.counts.failed_other = 1
    /\ enrich_run.handed = FlushSize

\* a run has ended in which a batch was written at the flush size and the row of a later
\* completion at the end
C29_RunWithFlushAndFinalFlush ==
    RunEnded /\ enrich_run.counts.ok = FlushSize + 1 /\ enrich_run.handed = FlushSize + 1


(***************************************************************************)
(* Properties of the saturation gate.                                      *)
(***************************************************************************)
\* the commit counts and team sizes the gate is swept over
GateCommits == 24
GateDevs == 2

FractionLeq(a, b) == a.num * b.den <= b.num * a.den

\* the fraction lies in [0.5, 1.0]
InGateRange(g) == g.den > 0 /\ 2 * g.num >= g.den /\ g.num <= g.den

\* C30: for the window length of the run, the gate factor is non-decreasing in its
\* argument and lies in [0.5, 1.0]: at person level in commit_count, over the rows of the
\* table and over every commit_count up to GateCommits; at team level in commits_per_dev
\* = commits_total / dev_total, over the rows of the table and over every team of up to
\* GateDevs developers and GateCommits commits.  The sweeps depend on the window alone
\* and are made at the start of a run, before its first table.
C30_GateNonDecreasingWithinRange ==
    /\ \A a, b \in RowsOf("active_employee_score") :
        /\ InGateRange(a.gate)
        /\ a.commit_count <= b.commit_count => FractionLeq(a.gate, b.gate)
    /\ \A s, t \in RowsOf("line_manager_dev_activity") :
        /\ InGateRange(s.gate)
        /\ s.commits_total * t.dev_total <= t.commits_total * s.dev_total
              => FractionLeq(s.gate, t.gate)
    /\ score_tables = EmptyMap =>
        /\ \A c \in 0..GateCommits :
            /\ InGateRange(GateFactor(c, 1, UnsatCommitMin(months), 20))
            /\ FractionLeq(GateFactor(c, 1, UnsatCommitMin(months), 20),
                           GateFactor(c + 1, 1, UnsatCommitMin(months), 20))
        /\ \A d1, d2 \in 1..GateDevs :
            \A c1, c2 \in 0..GateCommits :
                /\ InGateRange(GateFactor(c1, d1, UnsatCommitMin(months), 10))
                /\ c1 * d2 <= c2 * d1
                      => FractionLeq(GateFactor(c1, d1, UnsatCommitMin(months), 10),
                                     GateFactor(c2, d2, UnsatCommitMin(months), 10))

\* a person below the threshold and one at or above it, and a team below it and one
\* with more commits per developer, each pair with a gate that rises
C30_GatesOnBothBranches ==
    /\ \E a, b \in RowsOf("active_employee_score") :
        /\ a.commit_count < UnsatCommitMin(months) /\ b.commit_count >= UnsatCommitMin(months)
        /\ ~FractionLeq(b.gate, a.gate)
    /\ \E s, t \in RowsOf("line_manager_dev_activity") :
        /\ s.commits_total < UnsatCommitMin(months) * s.dev_total
        /\ s.commits_total * t.dev_total < t.commits_total * s.dev_total
        /\ ~FractionLeq(t.gate, s.gate)
=============================================================================
